---------------------------- MODULE Spec2Model ----------------------------
(***************************************************************************)
(* A model of the Manifest of python-epub3 (src/epub3/epub.py) and of the  *)
(* File handle it stores per resource (src/epub3/util/file.py).            *)
(*                                                                         *)
(* Strings the code inspects character by character (paths, open modes)    *)
(* are sequences of one-character tokens; "U+DCFF" is the lone surrogate   *)
(* os.fsdecode produces for an undecodable byte.  Byte contents are        *)
(* sequences of small integers.  uuid4() values are drawn in order from    *)
(* the table UUIDS.                                                        *)
(***************************************************************************)
EXTENDS Integers, Sequences, FiniteSets, TLC

VARIABLES
    items,          \* the dict itself: id -> Item, in insertion order, as <<[id, el]>>
    root,           \* Manifest._root: the item elements of the descriptor tree, in order
    attrib,         \* element -> its "id" / "href" attributes (href as stored, quoted)
    href_to_id,     \* Manifest._href_to_id
    href_to_file,   \* Manifest._href_to_file
    workfs,         \* the files present in Manifest._workfs (scratch store): name -> bytes
    zfile,          \* the entries of the original archive ePub._zfile: name -> bytes
    extfs,          \* the caller's own storage behind caller-supplied handles: name -> bytes
    nuuid,          \* how many uuid4() values the calls have drawn since construction
    generate_id,    \* ePub._generate_id: "None" or "custom"
    ncalls,         \* how many calls the session has made
    ret,            \* the last call: its name and the exception it raised ("" if none)
    batch,          \* the batch_rename call in progress, if any
    remaps,         \* the passes of remap_links so far: the path map and the index each saw
    spine,          \* Spine: the idref of each itemref element, in order
    epub,           \* the ePub object: _path, whether _zfile is set, the entry names of
                    \* _zfile in order, its package document, the XML library imported
    disk,           \* the archives on disk: file -> what was written to it
    warnings,       \* the warnings of the last pack: the paths it left out
    tfs,            \* a TemporaryFS and the provider behind it
    streams         \* the scratch files an internal stream is still open on

vars == <<items, root, attrib, href_to_id, href_to_file, workfs, zfile, extfs,
          nuuid, generate_id, ncalls, ret, batch, remaps, spine, epub, disk, warnings,
          tfs, streams>>

----------------------------------------------------------------------------
(* Bounds *)

\* the number of calls made on the Manifest in one session
MaxCalls == 2

----------------------------------------------------------------------------
(* Values *)

UUIDS == <<"u1", "u2", "u3", "u4", "u5", "u6", "u7", "u8", "u9", "u10", "u11", "u12",
          "u13", "u14", "u15", "u16", "u17", "u18">>

\* the uuid4() values Manifest.__init__ draws for the files the archive lacks
INIT_UUIDS == <<"v1", "v2", "v3">>

None == "None"

Empty == << >>

ALL_MODES == {"r", "w", "x", "a", "b", "+"}

OpfDir == <<"O">>

\* The file value None that _rename can store, and open() looks for.
NoFile == [kind |-> "none", path |-> << >>, open_modes |-> {}, hid |-> 0]

Range(s) == {s[i] : i \in DOMAIN s}

Last(s) == s[Len(s)]

Front(s) == SubSeq(s, 1, Len(s) - 1)

\* f with key k removed / set.
Drop(f, k) == [x \in DOMAIN f \ {k} |-> f[x]]

Put(f, k, v) == [x \in DOMAIN f \cup {k} |-> IF x = k THEN v ELSE f[x]]


----------------------------------------------------------------------------
(* Paths: str.strip("/"), urllib.parse.quote / unquote, posixpath.join *)

RECURSIVE LStrip(_)
LStrip(s) == IF s # << >> /\ Head(s) = "/" THEN LStrip(Tail(s)) ELSE s

RECURSIVE RStrip(_)
RStrip(s) == IF s # << >> /\ Last(s) = "/" THEN RStrip(Front(s)) ELSE s

\* href.strip("/")
Strip(s) == RStrip(LStrip(s))

\* quote() encodes to UTF-8 first, which a lone surrogate does not survive.
QuoteRaises(s) == "U+DCFF" \in Range(s)

QuoteChar(c) ==
    CASE c = " " -> <<"%", "2", "0">>
      [] c = "%" -> <<"%", "2", "5">>
      [] OTHER   -> <<c>>

\* quote(href, safe=":/?&=#"), for an href quote() accepts
RECURSIVE Quote(_)
Quote(s) == IF s = << >> THEN << >> ELSE QuoteChar(Head(s)) \o Quote(Tail(s))

HexDigits == {"0", "2", "5", "a", "b"}

\* the character a %XY escape decodes to (bytes 0x80.. alone are not UTF-8 and
\* are replaced)
HexChar(h1, h2) ==
    CASE h1 \in {"a", "b"} -> "U+FFFD"
      [] h1 = "0" /\ h2 = "0" -> "U+0000"
      [] h1 = "0" /\ h2 = "2" -> "U+0002"
      [] h1 = "0" /\ h2 = "5" -> "U+0005"
      [] h1 = "0" /\ h2 = "a" -> "U+000A"
      [] h1 = "0" /\ h2 = "b" -> "U+000B"
      [] h1 = "2" /\ h2 = "0" -> " "
      [] h1 = "2" /\ h2 = "2" -> "\""
      [] h1 = "2" /\ h2 = "5" -> "%"
      [] h1 = "2" /\ h2 = "a" -> "*"
      [] h1 = "2" /\ h2 = "b" -> "+"
      [] h1 = "5" /\ h2 = "0" -> "P"
      [] h1 = "5" /\ h2 = "2" -> "R"
      [] h1 = "5" /\ h2 = "5" -> "U"
      [] h1 = "5" /\ h2 = "a" -> "Z"
      [] OTHER -> "["

RECURSIVE Unquote(_)
Unquote(s) ==
    IF s = << >> THEN << >>
    ELSE IF Head(s) = "%" /\ Len(s) >= 3 /\ s[2] \in HexDigits /\ s[3] \in HexDigits
         THEN <<HexChar(s[2], s[3])>> \o Unquote(SubSeq(s, 4, Len(s)))
         ELSE <<Head(s)>> \o Unquote(Tail(s))

\* posixpath.join(a, b)
joinpath(a, b) ==
    IF b # << >> /\ Head(b) = "/" THEN b
    ELSE IF a = << >> \/ Last(a) = "/" THEN a \o b
    ELSE a \o <<"/">> \o b

\* path.split("/")
RECURSIVE SplitFrom(_, _, _)
SplitFrom(s, cur, acc) ==
    IF s = << >> THEN Append(acc, cur)
    ELSE IF Head(s) = "/" THEN SplitFrom(Tail(s), << >>, Append(acc, cur))
    ELSE SplitFrom(Tail(s), Append(cur, Head(s)), acc)

Split(s) == SplitFrom(s, << >>, << >>)

\* "/".join(comps)
RECURSIVE Join(_)
Join(comps) ==
    IF comps = << >> THEN << >>
    ELSE IF Len(comps) = 1 THEN comps[1]
    ELSE comps[1] \o <<"/">> \o Join(Tail(comps))

Dot == <<".">>

DotDot == <<".", ".">>

\* the loop of posixpath.normpath over the components
RECURSIVE NormComps(_, _, _)
NormComps(comps, new_comps, initial_slashes) ==
    IF comps = << >> THEN new_comps
    ELSE LET comp == Head(comps)
         IN  IF comp = << >> \/ comp = Dot
             THEN NormComps(Tail(comps), new_comps, initial_slashes)
             ELSE IF \/ comp # DotDot
                     \/ (initial_slashes = 0 /\ new_comps = << >>)
                     \/ (new_comps # << >> /\ Last(new_comps) = DotDot)
             THEN NormComps(Tail(comps), Append(new_comps, comp), initial_slashes)
             ELSE IF new_comps # << >>
             THEN NormComps(Tail(comps), Front(new_comps), initial_slashes)
             ELSE NormComps(Tail(comps), new_comps, initial_slashes)

\* posixpath.normpath(path)
normpath(path) ==
    LET initial_slashes ==
            IF path = << >> \/ Head(path) # "/" THEN 0
            ELSE IF Len(path) >= 2 /\ path[2] = "/" /\ ~(Len(path) >= 3 /\ path[3] = "/")
                 THEN 2 ELSE 1
        out == [i \in 1..initial_slashes |-> "/"]
                   \o Join(NormComps(Split(path), << >>, initial_slashes))
    IN  IF out = << >> THEN Dot ELSE out

\* posixpath.dirname(p)
dirname(p) ==
    LET slashes == {i \in DOMAIN p : p[i] = "/"}
        i == IF slashes = {} THEN 0 ELSE CHOOSE k \in slashes : \A j \in slashes : j <= k
        head == SubSeq(p, 1, i)
    IN  IF \E k \in DOMAIN head : head[k] # "/" THEN RStrip(head) ELSE head

\* os.getcwd() of the process
Cwd == <<"/", "w">>

\* posixpath.abspath(path)
abspath(path) ==
    normpath(IF path # << >> /\ Head(path) = "/" THEN path ELSE joinpath(Cwd, path))

\* posixpath.relpath(path, start), for a path that is not empty
relpath(path, start) ==
    LET start_list == SelectSeq(Split(abspath(start)), LAMBDA c : c # << >>)
        path_list  == SelectSeq(Split(abspath(path)), LAMBDA c : c # << >>)
        shorter    == IF Len(start_list) < Len(path_list)
                      THEN Len(start_list) ELSE Len(path_list)
        i == CHOOSE n \in 0..shorter :
                 /\ \A k \in 1..n : start_list[k] = path_list[k]
                 /\ n = shorter \/ start_list[n + 1] # path_list[n + 1]
        rel_list == [k \in 1..(Len(start_list) - i) |-> DotDot]
                        \o SubSeq(path_list, i + 1, Len(path_list))
    IN  IF rel_list = << >> THEN Dot ELSE Join(rel_list)

----------------------------------------------------------------------------
(* File: the handle of one resource (src/epub3/util/file.py) *)

ModeChars == {"r", "w", "a", "x", "b", "t", "+"}

ModeStrings == UNION {[1..n -> ModeChars] : n \in 1..3}

\* every mode string taken for legal
OPEN_MODESAll == ModeStrings

\* OPEN_MODES: one of r w a x, at most one of b t, at most one +, in any order
OPEN_MODES ==
    {m \in ModeStrings :
        /\ Cardinality(Range(m)) = Len(m)
        /\ Cardinality(Range(m) \cap {"r", "w", "a", "x"}) = 1
        /\ Cardinality(Range(m) \cap {"b", "t"}) <= 1}

\* File(uid, self._workfs): _init_open finds RootFS.open, which takes `mode`,
\* and no open_modes was given, so the handle gets ALL_MODES.
TempFile(uid) ==
    [kind |-> "temp", path |-> <<uid>>, open_modes |-> ALL_MODES, hid |-> 0]

\* (mutant) File(zpath, zfile): the open_modes="r" argument forgotten
ArchiveFileAllModes(zpath) ==
    [kind |-> "zip", path |-> zpath, open_modes |-> ALL_MODES, hid |-> 0]

\* File(zpath, zfile, open_modes="r"): frozenset("r") & ALL_MODES | frozenset("r")
ArchiveFile(zpath) ==
    [kind |-> "zip", path |-> zpath, open_modes |-> ({"r"} \cap ALL_MODES) \cup {"r"},
     hid |-> 0]

\* (mutant) the declared open_modes are not looked at
InitOpenModesAll(attr, arg, has_mode, use_io_open) == ALL_MODES

\* The capability mask _init_open computes.  `attr` is the open_modes attribute
\* the opener or fs declares (<<None>> when it has none), `arg` the open_modes
\* argument, `has_mode` whether its open() takes a `mode` keyword.
InitOpenModes(attr, arg, has_mode, use_io_open) ==
    LET open_modes == IF attr # <<None>> THEN attr ELSE arg
    IN  IF ~has_mode \/ open_modes = << >> THEN {}
        ELSE IF open_modes = <<None>> THEN ALL_MODES
        ELSE IF use_io_open THEN (Range(open_modes) \cap ALL_MODES) \cup {"r", "b"}
        ELSE (Range(open_modes) \cap ALL_MODES) \cup {"r"}

\* What _init_open raises for File(path, fs): without an fs, a str path, a
\* mapping with an "open" key and a bare callable all reach the call of
\* _getattr while it is still None or a one-argument __getitem__; a stream
\* has no way to be opened at all.
InitOpenRaises(src) ==
    src.type \in {"str", "mapping", "callable", "stream"}

\* File(file, fs=fs, open_modes=open_modes) for a caller-supplied source
ExternalFile(src, arg, hid) ==
    [kind |-> src.type, path |-> <<src.name>>,
     open_modes |-> InitOpenModes(src.attr, arg, src.has_mode, FALSE), hid |-> hid]

\* the capability mask not looked at
check_open_modeAny(file, mode) == mode \in OPEN_MODES

\* File.check_open_mode(mode)
check_open_mode(file, mode) ==
    IF mode \notin OPEN_MODES THEN FALSE
    ELSE IF mode = <<"r">> THEN TRUE
    ELSE IF file.open_modes = {}
         THEN ~("r" \notin Range(mode) \/ "+" \in Range(mode))
    ELSE ~(({"r", "w", "x", "a", "+"} \cap (Range(mode) \ file.open_modes)) # {})

\* The checks File.open makes before it calls the underlying open:
\* "" when it goes on, else the exception.
FileOpenCheck(file, mode) ==
    IF mode \notin OPEN_MODES THEN "ValueError"
    ELSE IF mode = <<"r">> THEN ""
    ELSE IF file.open_modes = {}
         THEN IF "r" \notin Range(mode) \/ "+" \in Range(mode) THEN "ValueError" ELSE ""
    ELSE IF ({"r", "w", "x", "a", "+"} \cap (Range(mode) \ file.open_modes)) # {}
         THEN "ValueError" ELSE ""

\* The mode File.open hands to the underlying open: the first of r w a x in it.
BaseMode(file, mode) ==
    IF mode = <<"r">> \/ file.open_modes = {} THEN "r"
    ELSE CHOOSE m \in {"r", "w", "a", "x"} : m \in Range(mode)

----------------------------------------------------------------------------
(* The three stores a handle can point into *)

EmptyFn == [x \in {} |-> << >>]

\* the key of a handle in its store
StoreKey(file) == IF file.kind = "zip" THEN file.path ELSE file.path[1]

StoreOf(file, wfs, zf, efs) ==
    CASE file.kind = "temp" -> wfs
      [] file.kind = "zip"  -> zf
      [] OTHER              -> efs

\* What the underlying open (io.open on the scratch directory, ZipFile.open,
\* the caller's opener) raises for the base mode m on store f at key k.
RawOpenErr(f, k, m) ==
    CASE m = "r" /\ k \notin DOMAIN f -> "FileNotFoundError"
      [] m = "x" /\ k \in DOMAIN f    -> "FileExistsError"
      [] OTHER                         -> ""

\* The store after a successful underlying open with base mode m: w truncates
\* or creates, a and x create.
RawOpen(f, k, m) ==
    CASE m = "w" -> Put(f, k, << >>)
      [] m \in {"a", "x"} /\ k \notin DOMAIN f -> Put(f, k, << >>)
      [] OTHER -> f

\* The store after the caller wrote `data` to the stream it got and closed it.
\* `plus` tells a stream opened for update: r+ writes from the start, over the
\* old bytes.
RawWrite(f, k, m, plus, data) ==
    CASE m \in {"w", "x"} -> Put(f, k, data)
      [] m = "a" -> Put(f, k, f[k] \o data)
      [] m = "r" /\ plus ->
            Put(f, k, data \o SubSeq(f[k], Len(data) + 1, Len(f[k])))
      [] OTHER -> f

----------------------------------------------------------------------------
(* TemporaryFS *)

\* What a provider may offer besides open; {"native"} stands for no provider:
\* a directory of the disk, made by TemporaryDirectory.
Providers ==
    {{"native"}} \cup SUBSET {"remove", "mkdir", "rmtree", "rmdir"}

\* What TemporaryFS(root) raises: the warning for a provider without remove
\* formats the undefined name `fs`.
TemporaryFSRaises(have) ==
    IF have # {"native"} /\ "remove" \notin have THEN "NameError" ELSE ""

\* TemporaryFS(root) over a provider that holds the files `files`.
\*   kind     which _cleanup the constructor chose
\*   root     the namespace made at construction ("" when none was made)
\*   dir      whether that namespace exists
\*   files    the paths that exist under the root
\*   created  the closure variable `created` of the flat kind
\*   made     (history) the paths this filesystem created and has not removed
TemporaryFS(have, files) ==
    LET name == IF have = {"native"} \/ "mkdir" \in have THEN "ns" ELSE ""
    IN  [kind    |-> IF have = {"native"} THEN "native"
                     ELSE IF name # "" /\ "rmtree" \in have THEN "tree" ELSE "flat",
         root    |-> name,
         rmdir   |-> "rmdir" \in have,
         dir     |-> name # "",
         files   |-> IF name = "" THEN files ELSE {},
         created |-> {},
         made    |-> {}]

TfsResult(t, err) == [t |-> t, err |-> err]

\* TemporaryFS.open(path, mode): the provider's open under the root; the flat
\* kind records the path when the mode has no "r".
_open(t, path, mode) ==
    IF mode = "r"
    THEN TfsResult(t, IF path \in t.files THEN "" ELSE "FileNotFoundError")
    ELSE IF t.root # "" /\ ~t.dir THEN TfsResult(t, "FileNotFoundError")
    ELSE IF mode = "x" /\ path \in t.files THEN TfsResult(t, "FileExistsError")
    ELSE TfsResult([t EXCEPT !.files = @ \cup {path},
                             !.created = IF t.kind = "flat" THEN @ \cup {path} ELSE @,
                             !.made = IF path \in t.files THEN @ ELSE @ \cup {path}],
                   "")

\* TemporaryFS.remove(path): the provider's remove, then created.discard
_remove(t, path) ==
    IF path \notin t.files THEN TfsResult(t, "FileNotFoundError")
    ELSE TfsResult([t EXCEPT !.files = @ \ {path},
                             !.created = @ \ {path},
                             !.made = @ \ {path}], "")

\* self._cleanup(): TemporaryDirectory.cleanup, rmtree(root), or the removal
\* of the recorded paths one by one and then rmdir(root)
_cleanup(t) ==
    CASE t.kind = "native" ->
            TfsResult([t EXCEPT !.files = {}, !.dir = FALSE, !.made = {}], "")
      [] t.kind = "tree" ->
            IF t.dir
            THEN TfsResult([t EXCEPT !.files = {}, !.dir = FALSE, !.made = {}], "")
            ELSE TfsResult(t, "FileNotFoundError")
      [] OTHER ->
            TfsResult([t EXCEPT !.files = @ \ t.created,
                                !.made = @ \ t.created,
                                !.dir = IF t.root # "" /\ t.rmdir /\ t.files \subseteq t.created
                                        THEN FALSE ELSE @],
                      "")

\* TemporaryFS.cleanup(): self._cleanup() inside try / except: pass
cleanup(t) == TfsResult(_cleanup(t).t, "")

----------------------------------------------------------------------------
(* The Manifest's own structures *)

ItemIds == {items[i].id : i \in DOMAIN items}

\* the element of the Item the dict `its` holds for id
ElOf(its, id) == its[CHOOSE i \in DOMAIN its : its[i].id = id].el

\* unquote(item._attrib["href"]) in the state m
ItemHrefIn(m, id) == Unquote(m.attrib[ElOf(m.items, id)].href)

\* unquote(item._attrib["href"])
ItemHref(id) == Unquote(attrib[ElOf(items, id)].href)

\* dict.__setitem__: a key already present keeps its place
DictSet(its, id, el) ==
    IF \E i \in DOMAIN its : its[i].id = id
    THEN [i \in DOMAIN its |-> IF its[i].id = id THEN [id |-> id, el |-> el] ELSE its[i]]
    ELSE Append(its, [id |-> id, el |-> el])

\* dict.pop(id)
DictPop(its, id) == SelectSeq(its, LAMBDA it : it.id # id)

\* root.remove(el)
RootRemove(r, el) == SelectSeq(r, LAMBDA e : e # el)

\* the element an add() that drew the n-th uuid creates
NewEl(n) == 10 + n

----------------------------------------------------------------------------
(* Manifest.__init__ *)

Dangling(e) == e.id = None \/ e.href = << >>

\* the loop over root.iterfind("{*}item"): element i of the descriptor is
\* registered under its id and its unquoted href unless it is dangling
RECURSIVE LoadItems(_, _, _, _)
LoadItems(desc, i, its, h2i) ==
    IF i > Len(desc) THEN [items |-> its, href_to_id |-> h2i]
    ELSE IF Dangling(desc[i]) THEN LoadItems(desc, i + 1, its, h2i)
    ELSE LoadItems(desc, i + 1, DictSet(its, desc[i].id, i),
                   Put(h2i, Unquote(desc[i].href), desc[i].id))

\* the registered hrefs with no entry in the archive, in the order of
\* _href_to_id: each gets File(str(uuid4()), self._workfs)
RECURSIVE MissingFiles(_, _, _, _)
MissingFiles(desc, zf, i, acc) ==
    IF i > Len(desc) THEN acc
    ELSE LET href == Unquote(desc[i].href)
         IN  IF Dangling(desc[i]) \/ href \in Range(acc)
                \/ joinpath(OpfDir, href) \in DOMAIN zf
             THEN MissingFiles(desc, zf, i + 1, acc)
             ELSE MissingFiles(desc, zf, i + 1, Append(acc, href))

IndexOf(seq, x) == CHOOSE i \in DOMAIN seq : seq[i] = x

LoadFiles(h2i, zf, missing) ==
    [href \in DOMAIN h2i |->
        IF joinpath(OpfDir, href) \in DOMAIN zf
        THEN ArchiveFile(joinpath(OpfDir, href))
        ELSE TempFile(INIT_UUIDS[IndexOf(missing, href)])]

----------------------------------------------------------------------------
(* The books a session is opened on, and the inputs of the calls *)

A == <<"a">>

\* the second path holds a space, which quote() escapes
B == <<"b", " ">>

D1 == <<1>>

D2 == <<2>>

Data == {D1, D2}

\* ePub(): a new book; ePub(path): an archive and the item elements of its
\* package document, as [id, href] attribute pairs
NewBook == [has_zfile |-> FALSE, zfile |-> EmptyFn, desc |-> << >>]

\* an archive with the file of item x, without the file of item y, and with
\* an item element that has no id
Archive ==
    [has_zfile |-> TRUE,
     zfile |-> [n \in {<<"O", "/", "a">>} |-> D1],
     desc |-> <<[id |-> "x", href |-> A], [id |-> None, href |-> <<"c">>],
                [id |-> "y", href |-> Quote(B)]>>]

Books == {NewBook, Archive}

\* the caller's storage
ExtFiles == [n \in {"e1", "e3", "e4"} |-> D2]

\* the caller's files whose open raises PermissionError, and those whose
\* stream raises OSError when read
OpenFails == {"e3"}

ReadFails == {"e4"}

Ret(op, err) == [op |-> op, err |-> err]

\* a field of a book, or the default where the book does not give it
Field(book, name, default) == IF name \in DOMAIN book THEN book[name] ELSE default

RECURSIVE SeqOf(_)
\* the elements of a set, in some order
SeqOf(set) ==
    IF set = {} THEN << >>
    ELSE LET x == CHOOSE y \in set : TRUE IN <<x>> \o SeqOf(set \ {x})

\* an entry of an archive
Entry(name, data) == [name |-> name, data |-> data]

\* an archive on disk: the entries in the order they were written, then the
\* resources write_oebps wrote (in the order of the dict _href_to_id, which
\* the model does not keep), then the package document if it was written
ArchiveOf(entries, oebps, opf) == [entries |-> entries, oebps |-> oebps, opf |-> opf]

\* the archive the session opened
SrcPath == "src.epub"

\* the file a path names
RealPath(path) == IF path = "./src.epub" THEN SrcPath ELSE path

\* ePub.__init__: the fields of the ePub object after construction
EpubOf(book) ==
    [path |-> Field(book, "path", IF book.has_zfile THEN SrcPath ELSE None),
     has_zfile |-> book.has_zfile,
     namelist |-> Field(book, "namelist", SeqOf(DOMAIN book.zfile)),
     original |-> book.desc,
     etree |-> Field(book, "etree", "xml.etree")]

\* Spine.__init__: an itemref whose idref is not an item of the manifest is removed
SpineOf(book, ids) ==
    SelectSeq(Field(book, "spine", << >>), LAMBDA idref : idref \in ids)

\* the files on disk when the session starts
DiskOf(book) ==
    IF book.has_zfile
    THEN [p \in {EpubOf(book).path} |->
            ArchiveOf([i \in DOMAIN EpubOf(book).namelist |->
                         Entry(EpubOf(book).namelist[i],
                               book.zfile[EpubOf(book).namelist[i]])], {}, << >>)]
    ELSE EmptyFn

NoBatch ==
    [active |-> FALSE, todo |-> << >>, mapper |-> EmptyFn, repair |-> FALSE,
     pathmap |-> EmptyFn, fails |-> {}, repairs |-> << >>]

InitFrom(book) ==
    LET loaded  == LoadItems(book.desc, 1, << >>, EmptyFn)
        missing == MissingFiles(book.desc, book.zfile, 1, << >>)
    IN  /\ items = loaded.items
        /\ href_to_id = loaded.href_to_id
        /\ root = SelectSeq([i \in 1..Len(book.desc) |-> i],
                            LAMBDA i : ~Dangling(book.desc[i]))
        /\ attrib = [i \in {j \in 1..Len(book.desc) : ~Dangling(book.desc[j])} |->
                        book.desc[i]]
        /\ href_to_file = IF book.has_zfile
                          THEN LoadFiles(loaded.href_to_id, book.zfile, missing)
                          ELSE EmptyFn
        /\ nuuid = 0
        /\ zfile = book.zfile
        /\ workfs = EmptyFn
        /\ streams = {}
        /\ extfs = ExtFiles
        /\ generate_id \in {"None", "custom"}
        /\ ncalls = 0
        /\ ret = Ret("init", "")
        /\ batch = NoBatch
        /\ remaps = << >>
        /\ spine = SpineOf(book, {loaded.items[i].id : i \in DOMAIN loaded.items})
        /\ epub = EpubOf(book)
        /\ disk = DiskOf(book)
        /\ warnings = {}

Init == (\E book \in Books : InitFrom(book)) /\ tfs = TemporaryFS({"native"}, {})

----------------------------------------------------------------------------
(* The calls, as functions of the Manifest's state m (a record of the        *)
(* variables the Manifest owns).  Each gives the state after the call and   *)
(* the exception raised, "" if none.                                        *)

M == [items |-> items, root |-> root, attrib |-> attrib,
      href_to_id |-> href_to_id, href_to_file |-> href_to_file,
      workfs |-> workfs, zfile |-> zfile, extfs |-> extfs, nuuid |-> nuuid,
      remaps |-> remaps, streams |-> streams]

Result(m, err) == [m |-> m, err |-> err]

\* str(uuid4()): the next value not drawn yet
\* a generator that gives the same value every time
uuid4Same(m) == UUIDS[1]

uuid4(m) == UUIDS[m.nuuid + 1]

\* Manifest.__call__(href): the id of the item at the path
call(m, h) ==
    IF Strip(h) = << >> THEN [err |-> "AssertionError", id |-> None]
    ELSE IF Strip(h) \notin DOMAIN m.href_to_id THEN [err |-> "FileNotFoundError", id |-> None]
    ELSE [err |-> "", id |-> m.href_to_id[Strip(h)]]

\* self._href_to_file.get(href): None for a missing key and for a stored None
GetFile(m, href) ==
    IF href \in DOMAIN m.href_to_file THEN m.href_to_file[href] ELSE NoFile

\* the bytes behind a handle, or "missing"
HasBytes(m, file) ==
    file.kind # "none" /\ StoreKey(file) \in DOMAIN StoreOf(file, m.workfs, m.zfile, m.extfs)

Bytes(m, file) == StoreOf(file, m.workfs, m.zfile, m.extfs)[StoreKey(file)]

\* m with the store behind `file` replaced by f
WithStore(m, file, f) ==
    CASE file.kind = "temp" -> [m EXCEPT !.workfs = f]
      [] file.kind = "zip"  -> [m EXCEPT !.zfile = f]
      [] OTHER              -> [m EXCEPT !.extfs = f]

\* file.remove(), inside try/except: a scratch file is unlinked; an fs
\* provider removes its file; an opener object has no remove to call
FileRemove(m, file) ==
    IF file.kind \in {"temp", "fs"} /\ HasBytes(m, file)
    THEN WithStore(m, file, Drop(StoreOf(file, m.workfs, m.zfile, m.extfs), StoreKey(file)))
    ELSE m

\* file.open(mode), then the caller writes `data` and closes the stream
\* what reading the stream of the handle raises
ReadErr(file) ==
    IF file.kind \notin {"temp", "zip", "none"} /\ StoreKey(file) \in ReadFails
    THEN "OSError" ELSE ""

FileOpen(m, file, mode, data) ==
    LET f    == StoreOf(file, m.workfs, m.zfile, m.extfs)
        k    == StoreKey(file)
        base == BaseMode(file, mode)
        plus == "+" \in Range(mode)
        f1   == RawOpen(f, k, base)
    IN  IF FileOpenCheck(file, mode) # "" THEN Result(m, FileOpenCheck(file, mode))
        ELSE IF RawOpenErr(f, k, base) # "" THEN Result(m, RawOpenErr(f, k, base))
        ELSE IF file.kind \notin {"temp", "zip"} /\ k \in OpenFails
             THEN Result(m, "PermissionError")
        ELSE Result(WithStore(m, file, RawWrite(f1, k, base, plus, data)), "")

----------------------------------------------------------------------------
(* Manifest: the file system methods *)

\* Manifest.add(href, file, fs, open_modes, id): `src` is the file / fs given
\* with its open_modes argument, `id` the id argument or None, `gen` what a
\* custom generate_id returns for this call.
add(m, h, src, id, gen_id, gen) ==
    LET href == Strip(h)
        uid  == uuid4(m)
        id1  == IF id # None THEN id ELSE IF gen_id = "None" THEN uid ELSE gen
        el   == NewEl(m.nuuid + 1)
        file == IF src.type \in {"None", "stream"} THEN TempFile(uid)
                ELSE ExternalFile(src, src.open_modes, m.nuuid + 1)
        \* copyfileobj(file0, self._workfs.open(uid, "wb"))
        wfs  == IF src.type = "stream" THEN Put(m.workfs, uid, src.data) ELSE m.workfs
    IN  IF href = << >> THEN Result(m, "AssertionError")
        ELSE IF href \in DOMAIN m.href_to_id THEN Result(m, "FileExistsError")
        ELSE IF \E i \in DOMAIN m.items : m.items[i].id = id1 THEN Result(m, "LookupError")
        ELSE IF QuoteRaises(href) THEN Result(m, "UnicodeEncodeError")
        ELSE IF src.type \notin {"None", "stream", "fs"} /\ InitOpenRaises(src)
             THEN Result(m, "TypeError")
        ELSE Result([m EXCEPT
                        !.items = DictSet(m.items, id1, el),
                        !.root = Append(m.root, el),
                        !.attrib = Put(m.attrib, el, [id |-> id1, href |-> Quote(href)]),
                        !.href_to_id = Put(m.href_to_id, href, id1),
                        !.href_to_file = Put(m.href_to_file, href, file),
                        !.workfs = wfs,
                        !.nuuid = m.nuuid + 1], "")

\* A value a caller passes as file / fs to add, or assigns to manifest[id]:
\* its Python type, and what the model needs of it (the name of the caller's
\* file it opens, the bytes a stream holds, the path a str or mapping names).
\* The opener and fs objects of the model have no open_modes attribute and an
\* open() that takes `mode`.
Value(type, name, data, path, open_modes) ==
    [type |-> type, name |-> name, attr |-> <<None>>, has_mode |-> TRUE,
     data |-> data, path |-> path, open_modes |-> open_modes]

NoSource == Value("None", "", << >>, << >>, <<"r">>)

\* The copy-on-write step of Manifest.open for a handle that cannot serve
\* `mode`: the bytes are copied to a scratch file unless the mode truncates,
\* and the path gets a new scratch handle.
\* the scratch handle made without the bytes of the handle before it
MaterializeEmpty(m, href, file, mode) ==
    Result([m EXCEPT !.href_to_file = Put(m.href_to_file, href, TempFile(uuid4(m))),
                     !.nuuid = m.nuuid + 1], "")

\* the entry replaced before the bytes are copied
MaterializeSwapsFirst(m, href, file, mode) ==
    LET uid == uuid4(m)
        swapped == [m EXCEPT !.href_to_file = Put(m.href_to_file, href, TempFile(uid)),
                             !.nuuid = m.nuuid + 1]
    IN  IF "w" \in Range(mode) THEN Result(swapped, "")
        ELSE IF FileOpen(m, file, <<"r", "b">>, << >>).err = "FileNotFoundError"
             THEN IF "r" \in Range(mode) THEN Result(swapped, "FileNotFoundError")
                  ELSE Result(swapped, "")
        ELSE IF FileOpen(m, file, <<"r", "b">>, << >>).err # ""
             THEN Result(swapped, FileOpen(m, file, <<"r", "b">>, << >>).err)
        ELSE IF ReadErr(file) # ""
             THEN Result([swapped EXCEPT !.workfs = Put(m.workfs, uid, << >>)], ReadErr(file))
        ELSE Result([swapped EXCEPT !.workfs = Put(m.workfs, uid, Bytes(m, file))], "")

Materialize(m, href, file, mode) ==
    LET uid == uuid4(m)
        swapped == [m EXCEPT !.href_to_file = Put(m.href_to_file, href, TempFile(uid)),
                             !.nuuid = m.nuuid + 1]
    IN  IF "w" \in Range(mode) THEN Result(swapped, "")
        ELSE IF FileOpen(m, file, <<"r", "b">>, << >>).err = "FileNotFoundError"
             THEN IF "r" \in Range(mode) THEN Result(m, "FileNotFoundError")
                  ELSE Result(swapped, "")
        ELSE IF FileOpen(m, file, <<"r", "b">>, << >>).err # ""
             THEN Result(m, FileOpen(m, file, <<"r", "b">>, << >>).err)
        \* self._workfs.open(uid, "wb") has made the file when the read raises;
        \* its stream is an argument of the call that raised: nothing closes it
        ELSE IF ReadErr(file) # ""
             THEN Result([m EXCEPT !.workfs = Put(m.workfs, uid, << >>),
                                   !.streams = m.streams \cup {uid},
                                   !.nuuid = m.nuuid + 1], ReadErr(file))
        ELSE Result([swapped EXCEPT !.workfs = Put(m.workfs, uid, Bytes(m, file))], "")

\* Manifest.open(href, mode), up to the handle it will open: the state, the
\* exception, the handle
\* an exclusive mode taken for a write mode
ResolveNotExclusive(m, h, mode, gen_id, gen) ==
    LET href == Strip(h)
        file == GetFile(m, href)
        added == add(m, href, NoSource, None, gen_id, gen)
    IN  IF mode \notin OPEN_MODES THEN [m |-> m, err |-> "ValueError", file |-> NoFile]
        ELSE IF href = << >> THEN [m |-> m, err |-> "AssertionError", file |-> NoFile]
        ELSE IF href \in DOMAIN m.href_to_id
             THEN IF file = NoFile
                  THEN [m |-> [m EXCEPT !.href_to_file = Put(m.href_to_file, href, TempFile(uuid4(m))),
                                        !.nuuid = m.nuuid + 1],
                        err |-> "", file |-> TempFile(uuid4(m))]
                  ELSE IF ~check_open_mode(file, mode)
                  THEN LET r == Materialize(m, href, file, mode)
                       IN  [m |-> r.m, err |-> r.err,
                            file |-> IF r.err = "" THEN TempFile(uuid4(m)) ELSE NoFile]
                  ELSE [m |-> m, err |-> "", file |-> file]
        ELSE IF "r" \in Range(mode)
             THEN [m |-> m, err |-> "FileNotFoundError", file |-> NoFile]
        ELSE [m |-> added.m, err |-> added.err,
              file |-> IF added.err = "" THEN added.m.href_to_file[href] ELSE NoFile]

Resolve(m, h, mode, gen_id, gen) ==
    LET href == Strip(h)
        file == GetFile(m, href)
        added == add(m, href, NoSource, None, gen_id, gen)
    IN  IF mode \notin OPEN_MODES THEN [m |-> m, err |-> "ValueError", file |-> NoFile]
        ELSE IF href = << >> THEN [m |-> m, err |-> "AssertionError", file |-> NoFile]
        ELSE IF href \in DOMAIN m.href_to_id
             THEN IF "x" \in Range(mode)
                  THEN [m |-> m, err |-> "FileExistsError", file |-> NoFile]
                  ELSE IF file = NoFile
                  THEN [m |-> [m EXCEPT !.href_to_file = Put(m.href_to_file, href, TempFile(uuid4(m))),
                                        !.nuuid = m.nuuid + 1],
                        err |-> "", file |-> TempFile(uuid4(m))]
                  ELSE IF ~check_open_mode(file, mode)
                  THEN LET r == Materialize(m, href, file, mode)
                       IN  [m |-> r.m, err |-> r.err,
                            file |-> IF r.err = "" THEN TempFile(uuid4(m)) ELSE NoFile]
                  ELSE [m |-> m, err |-> "", file |-> file]
        ELSE IF "r" \in Range(mode)
             THEN [m |-> m, err |-> "FileNotFoundError", file |-> NoFile]
        ELSE [m |-> added.m, err |-> added.err,
              file |-> IF added.err = "" THEN added.m.href_to_file[href] ELSE NoFile]

\* Manifest.open(href, mode); the caller then writes `data` to the stream and
\* closes it
open(m, h, mode, data, gen_id, gen) ==
    LET r == Resolve(m, h, mode, gen_id, gen)
    IN  IF r.err # "" THEN Result(r.m, r.err)
        ELSE FileOpen(r.m, r.file, mode, data)

\* Manifest.write(href, data) for bytes: with self.open(href, "wb") as f: f.write
write(m, h, data, gen_id, gen) == open(m, h, <<"w", "b">>, data, gen_id, gen)

\* Manifest.read(href): the state after the call, the exception, the bytes
\* Manifest.touch(href): open(href, "rb").close(), and open(href, "wb").close()
\* when that raised anything
touch(m, h, gen_id, gen) ==
    LET r == open(m, h, <<"r", "b">>, << >>, gen_id, gen)
    IN  IF r.err = "" THEN r ELSE open(r.m, h, <<"w", "b">>, << >>, gen_id, gen)

read(m, h) ==
    LET r == Resolve(m, h, <<"r", "b">>, "None", None)
        o == FileOpen(r.m, r.file, <<"r", "b">>, << >>)
    IN  IF r.err # "" THEN [m |-> r.m, err |-> r.err, data |-> << >>]
        ELSE IF o.err # "" THEN [m |-> o.m, err |-> o.err, data |-> << >>]
        ELSE IF ReadErr(r.file) # "" THEN [m |-> o.m, err |-> ReadErr(r.file), data |-> << >>]
        ELSE [m |-> o.m, err |-> "", data |-> Bytes(r.m, r.file)]

\* (mutant) the handle leaves the index and its storage is left behind
DropFileKeepsStorage(m, href) ==
    [m EXCEPT !.href_to_file = Drop(m.href_to_file, href)]

\* The file part of remove / pop / popitem: the handle leaves the index and,
\* if it can be opened for writing, its storage is removed.
DropFile(m, href) ==
    LET file == GetFile(m, href)
        m1   == [m EXCEPT !.href_to_file = Drop(m.href_to_file, href)]
    IN  IF file # NoFile /\ check_open_mode(file, <<"w">>) THEN FileRemove(m1, file) ELSE m1

\* The attributes of the elements still in the tree or held by an Item of the
\* dict; an element dropped from both is garbage.
Live(m) ==
    [m EXCEPT !.attrib = [e \in Range(m.root) \cup {m.items[i].el : i \in DOMAIN m.items}
                            |-> m.attrib[e]]]

\* Manifest.remove(href)
remove(m, h) ==
    LET href == Strip(h)
        id   == m.href_to_id[href]
        has  == \E i \in DOMAIN m.items : m.items[i].id = id
        m1   == [m EXCEPT !.href_to_id = Drop(m.href_to_id, href)]
        m2   == IF has THEN [m1 EXCEPT !.items = DictPop(m.items, id),
                                       !.root = RootRemove(m.root, ElOf(m.items, id))]
                ELSE m1
    IN  IF href = << >> THEN Result(m, "AssertionError")
        ELSE IF href \notin DOMAIN m.href_to_id THEN Result(m, "FileNotFoundError")
        ELSE Result(Live(DropFile(m2, href)), "")

\* Manifest.pop(id), without a default
pop(m, id) ==
    LET el   == ElOf(m.items, id)
        href == Unquote(m.attrib[el].href)
        m1   == [m EXCEPT !.items = DictPop(m.items, id),
                          !.root = RootRemove(m.root, el),
                          !.href_to_id = Drop(m.href_to_id, href)]
    IN  IF ~\E i \in DOMAIN m.items : m.items[i].id = id THEN Result(m, "LookupError")
        ELSE Result(Live(DropFile(m1, href)), "")

\* Manifest.popitem(): the item inserted last
popitem(m) ==
    IF m.items = << >> THEN Result(m, "KeyError") ELSE pop(m, Last(m.items).id)

\* Manifest.clear()
clear(m) ==
    Result(Live([m EXCEPT !.root = << >>, !.href_to_file = EmptyFn,
                          !.href_to_id = EmptyFn, !.items = << >>]), "")

\* (mutant) _rename that binds the new path to a scratch copy of the bytes
_renameCopies(m, item, href, dest_href) ==
    LET id == m.href_to_id[href]
        id_item == IF item = None THEN id ELSE item
        el == ElOf(m.items, id_item)
        uid == uuid4(m)
        file == GetFile(m, href)
    IN  IF href \notin DOMAIN m.href_to_id THEN Result(m, "FileNotFoundError")
        ELSE Result([m EXCEPT
                        !.href_to_id = Put(Drop(m.href_to_id, href), dest_href, id),
                        !.attrib = [m.attrib EXCEPT ![el].href = Quote(dest_href)],
                        !.href_to_file = Put(Drop(m.href_to_file, href), dest_href,
                                             TempFile(uid)),
                        !.workfs = IF HasBytes(m, file)
                                   THEN Put(m.workfs, uid, Bytes(m, file))
                                   ELSE m.workfs,
                        !.nuuid = m.nuuid + 1], "")

\* (mutant) _rename that leaves the handle under the old path
_renameKeepsFile(m, item, href, dest_href) ==
    LET id == m.href_to_id[href]
        id_item == IF item = None THEN id ELSE item
        el == ElOf(m.items, id_item)
    IN  IF href \notin DOMAIN m.href_to_id THEN Result(m, "FileNotFoundError")
        ELSE Result([m EXCEPT
                        !.href_to_id = Put(Drop(m.href_to_id, href), dest_href, id),
                        !.attrib = [m.attrib EXCEPT ![el].href = Quote(dest_href)]], "")

\* Manifest._rename(item, href, dest_href); `item` is the id of the Item
\* passed, or None
_rename(m, item, href, dest_href) ==
    LET id == m.href_to_id[href]
        m1 == [m EXCEPT !.href_to_id = Put(Drop(m.href_to_id, href), dest_href, id)]
        id_item == IF item = None THEN id ELSE item
        el == ElOf(m.items, id_item)
    IN  IF href \notin DOMAIN m.href_to_id THEN Result(m, "FileNotFoundError")
        ELSE IF ~\E i \in DOMAIN m.items : m.items[i].id = id_item THEN Result(m1, "KeyError")
        ELSE IF QuoteRaises(dest_href) THEN Result(m1, "UnicodeEncodeError")
        ELSE Result([m1 EXCEPT
                        !.attrib = [m.attrib EXCEPT ![el].href = Quote(dest_href)],
                        !.href_to_file = Put(Drop(m.href_to_file, href), dest_href,
                                             GetFile(m, href))], "")

\* Manifest.rename(href, dest_href) without repair; `item` is the id of the
\* Item passed as href, or None when a path was passed
\* Manifest.stat(href): the stat of the handle, None when the handle has none.
\* A scratch file is stat-ed through os.stat, which raises when the file was
\* never written; ZipFile and the openers have no stat attribute.
stat(m, h) ==
    LET href == Strip(h)
        file == GetFile(m, href)
    IN  IF href = << >> THEN Result(m, "AssertionError")
        ELSE IF href \notin DOMAIN m.href_to_id THEN Result(m, "FileNotFoundError")
        ELSE IF file.kind = "temp" /\ StoreKey(file) \notin DOMAIN m.workfs
             THEN Result(m, "FileNotFoundError")
        ELSE Result(m, "")

rename(m, h, dest_h, item) ==
    LET href == IF item = None THEN Strip(h) ELSE Unquote(m.attrib[ElOf(m.items, item)].href)
        dest_href == Strip(dest_h)
    IN  IF item # None /\ ~\E i \in DOMAIN m.items : m.items[i].id = item
        THEN Result(m, "LookupError")
        ELSE IF href = << >> \/ dest_href = << >> THEN Result(m, "AssertionError")
        ELSE IF href = dest_href THEN Result(m, "")
        ELSE IF dest_href \in DOMAIN m.href_to_id THEN Result(m, "FileExistsError")
        ELSE _rename(m, item, href, dest_href)

\* Manifest.replace(href, dest_href), both given as paths
replace(m, h, dest_h) ==
    LET href == Strip(h)
        dest_href == Strip(dest_h)
        popped == IF dest_href \in DOMAIN m.href_to_id
                  THEN pop(m, m.href_to_id[dest_href]) ELSE Result(m, "")
    IN  IF href = << >> THEN Result(m, "AssertionError")
        ELSE IF href \notin DOMAIN m.href_to_id THEN Result(m, "FileNotFoundError")
        ELSE IF dest_href = << >> THEN Result(m, "AssertionError")
        ELSE IF href = dest_href THEN Result(m, "")
        ELSE IF popped.err # "" THEN popped
        ELSE _rename(popped.m, None, href, dest_href)

\* Manifest.__setitem__(id, value): a str renames, bytes are written, a
\* mapping with "href" updates the item (Item.update renames), anything else
\* becomes the handle: File(value, open_modes="rb")
setitem(m, id, value, gen_id, gen) ==
    LET href == Unquote(m.attrib[ElOf(m.items, id)].href)
    IN  IF ~\E i \in DOMAIN m.items : m.items[i].id = id THEN Result(m, "LookupError")
        ELSE CASE value.type = "path"  -> rename(m, href, value.path, None)
               [] value.type = "bytes" -> write(m, href, value.data, gen_id, gen)
               [] value.type = "attrs" -> rename(m, None, value.path, id)
               [] InitOpenRaises(value) -> Result(m, "TypeError")
               [] OTHER ->
                    Result([m EXCEPT
                              !.href_to_file = Put(m.href_to_file, href,
                                    ExternalFile(value, <<"r", "b">>, m.nuuid + 1)),
                              !.nuuid = m.nuuid + 1], "")

\* Manifest.set(id, value): as manifest[id] = value for an item there is; for
\* a new id a mapping with "href" adds the resource, while a str reaches
\* self.add(href, ...) with `href` never assigned
set(m, id, value, gen_id, gen) ==
    IF \E i \in DOMAIN m.items : m.items[i].id = id
    THEN setitem(m, id, value, gen_id, gen)
    ELSE CASE value.type = "path"  -> Result(m, "UnboundLocalError")
           [] value.type = "attrs" -> add(m, value.path, NoSource, id, gen_id, gen)
           [] OTHER                -> Result(m, "LookupError")

----------------------------------------------------------------------------
(* The Link Remapper (src/epub3/util/remap.py).                             *)
(*                                                                          *)
(* The text of a resource is a sequence of chunks.  A chunk is plain text,  *)
(* bytes that are not UTF-8 ("bad"), or one reference as the patterns find   *)
(* it: "attr" is the value of an href= or src= attribute of a tag (CRE_REF), *)
(* "url" the argument of a CSS url() (CRE_CSS_URL; in an (X)HTML resource it *)
(* stands inside a style attribute or a <style> element).  A reference is   *)
(* held as urlsplit gives it, the path as written (quoted).                 *)

Chunk(kind, scheme, netloc, path, fragment) ==
    [kind |-> kind, scheme |-> scheme, netloc |-> netloc, path |-> path,
     fragment |-> fragment]

\* LINK_PATTERNS: the media types a pass selects, in order, and the
\* references scanned in each
LINK_PATTERNS ==
    <<[predicate |-> {"text/css"}, patterns |-> {"url"}],
      [predicate |-> {"application/x-dtbncx+xml"}, patterns |-> {"attr"}],
      [predicate |-> {"text/html", "application/xhtml+xml"},
       patterns |-> {"attr", "url"}]>>

\* item["media-type"], None for an item without the attribute
MediaType(m, id) ==
    LET a == m.attrib[ElOf(m.items, id)]
    IN  IF "media_type" \in DOMAIN a THEN a.media_type ELSE None

\* manifest.filter_by_attr(predicate): the ids of the items of the dict whose
\* media-type is one of `predicate`, in the order of the dict
filter_by_attr(m, predicate) ==
    LET ids == [i \in DOMAIN m.items |-> m.items[i].id]
    IN  SelectSeq(ids, LAMBDA id : MediaType(m, id) \in predicate)

\* f.read() of the stream Manifest.open returned for the handle r.file, and
\* the decoding of its bytes
ReadDecoded(r) ==
    IF r.err # "" THEN [m |-> r.m, err |-> r.err, text |-> << >>]
    ELSE IF FileOpen(r.m, r.file, <<"r">>, << >>).err # ""
         THEN [m |-> r.m, err |-> FileOpen(r.m, r.file, <<"r">>, << >>).err, text |-> << >>]
    ELSE IF \E i \in DOMAIN Bytes(r.m, r.file) : Bytes(r.m, r.file)[i].kind = "bad"
         THEN [m |-> r.m, err |-> "UnicodeDecodeError", text |-> << >>]
    ELSE [m |-> r.m, err |-> "", text |-> Bytes(r.m, r.file)]

\* item.read_text(): Manifest.open(item, "r") and the decoded text
read_text(m, id) ==
    ReadDecoded(Resolve(m, Unquote(m.attrib[ElOf(m.items, id)].href), <<"r">>,
                        "None", None))

\* item.write_text(text): Manifest.open(item, "w") and the write
write_text(m, id, text) ==
    open(m, Unquote(m.attrib[ElOf(m.items, id)].href), <<"w">>, text, "None", None)

\* path_repl_iter: abspath(urlp.path) of a reference of a resource in basedir
RefAbspath(c, basedir) ==
    IF basedir # << >> THEN normpath(joinpath(basedir, Unquote(c.path)))
    ELSE Unquote(c.path)

\* path_repl_iter: getnew(path)
RefNew(pathmap, path, basedir) ==
    IF basedir # << >> THEN relpath(pathmap[path], basedir) ELSE pathmap[path]

\* path_repl_iter(matches, pathmap, basedir): the new path, not yet quoted, of
\* each chunk of the text that `patterns` match, that has no scheme and no
\* netloc and whose path is a key of pathmap
path_repl_iter(text, patterns, pathmap, basedir) ==
    [i \in {k \in DOMAIN text :
                /\ text[k].kind \in patterns
                /\ text[k].scheme = "" /\ text[k].netloc = ""
                /\ RefAbspath(text[k], basedir) \in DOMAIN pathmap}
        |-> RefNew(pathmap, RefAbspath(text[i], basedir), basedir)]

\* apply_repl_iter(text, repls), each replacement being
\* quote(urlunsplit(urlp._replace(path=pathnew)), safe=":/?&=#")
apply_repl_iter(text, repls) ==
    [i \in DOMAIN text |->
        IF i \in DOMAIN repls THEN [text[i] EXCEPT !.path = Quote(repls[i])] ELSE text[i]]

\* the end of a turn of the loop of remap_links: changed.append(href) unless
\* write_text raised
RemapWritten(wr, href) ==
    [m |-> wr.m, changed |-> IF wr.err # "" THEN << >> ELSE <<href>>]

\* a turn of the loop of remap_links from `if repls:` on, for the text rd.text
\* of the item and the replacements found
RemapApply(rd, id, href, repls) ==
    IF \E i \in DOMAIN repls : QuoteRaises(repls[i]) THEN [m |-> rd.m, changed |-> << >>]
    ELSE IF DOMAIN repls = {} THEN [m |-> rd.m, changed |-> <<href>>]
    ELSE RemapWritten(write_text(rd.m, id, apply_repl_iter(rd.text, repls)), href)

\* a turn of the loop of remap_links after read_text gave rd
RemapRead(rd, id, href, patterns, pathmap) ==
    IF rd.err # "" THEN [m |-> rd.m, changed |-> << >>]
    ELSE RemapApply(rd, id, href,
                    path_repl_iter(rd.text, patterns, pathmap, dirname(href)))

\* the body of the loop of remap_links for one item, inside try / except
\* (whatever is raised is passed over): the state after it and what it
\* appended to `changed`
remap_item(m, id, patterns, pathmap) ==
    RemapRead(read_text(m, id), id, Unquote(m.attrib[ElOf(m.items, id)].href),
              patterns, pathmap)

\* the items a pass visits with the patterns of each: for each entry of
\* LINK_PATTERNS in turn, the items filter_by_attr selects
RECURSIVE RemapWork(_, _)
RemapWork(m, k) ==
    IF k > Len(LINK_PATTERNS) THEN << >>
    ELSE LET ids == filter_by_attr(m, LINK_PATTERNS[k].predicate)
         IN  [i \in DOMAIN ids |-> [id |-> ids[i], patterns |-> LINK_PATTERNS[k].patterns]]
                 \o RemapWork(m, k + 1)

\* the loop of remap_links over the items of `work`
RECURSIVE remap_loop(_, _, _, _)
remap_loop(m, work, pathmap, changed) ==
    IF work = << >> THEN [m |-> m, changed |-> changed]
    ELSE CHOOSE out \in
            {remap_loop(r.m, Tail(work), pathmap, changed \o r.changed) :
                r \in {remap_item(m, Head(work).id, Head(work).patterns, pathmap)}} : TRUE

\* remap_links(manifest, pathmap): the state after the pass and the list
\* `changed` it returns; the pass is entered in the log
remap_links(m, pathmap) ==
    remap_loop([m EXCEPT !.remaps = Append(@, [pathmap |-> pathmap,
                                                index |-> m.href_to_id])],
               RemapWork(m, 1), pathmap, << >>)

\* the result of a rename that repaired: the state after the pass p and the
\* list it returned
WithRepairs(p) == [m |-> p.m, err |-> "", repairs |-> p.changed]

\* Manifest.rename from `if href != dest_href` on, after _rename gave r
Repaired(r, href, dest_href, repair) ==
    IF r.err # "" \/ href = dest_href \/ ~repair
    THEN [m |-> r.m, err |-> r.err, repairs |-> << >>]
    ELSE WithRepairs(remap_links(r.m, [x \in {href} |-> dest_href]))

\* Manifest.rename(href, dest_href, repair): rename, then with repair one
\* pass of remap_links for the pair if the paths differ
rename_repair(m, h, dest_h, item, repair) ==
    Repaired(rename(m, h, dest_h, item),
             IF item = None THEN Strip(h) ELSE Unquote(m.attrib[ElOf(m.items, item)].href),
             Strip(dest_h), repair)

----------------------------------------------------------------------------
(* batch_rename *)

\* a loop whose turn renames with repair: a pass of remap_links per rename
batch_rename_stepRepairs(m, b) ==
    LET id   == Head(b.todo)
        href == Unquote(m.attrib[ElOf(m.items, id)].href)
        dest == IF href \in DOMAIN b.mapper THEN b.mapper[href] ELSE href
        r    == rename_repair(m, None, dest, id, b.repair)
    IN  [m |-> r.m,
         b |-> IF r.err = ""
               THEN [b EXCEPT !.todo = Tail(b.todo),
                              !.pathmap = IF href # Strip(dest)
                                          THEN Put(b.pathmap, href, Strip(dest))
                                          ELSE b.pathmap]
               ELSE [b EXCEPT !.todo = Tail(b.todo),
                              !.fails = b.fails \cup
                                  {Unquote(r.m.attrib[ElOf(r.m.items, id)].href)}]]

\* a loop whose turn lets the exception of rename escape: the call ends there
batch_rename_stepRaises(m, b) ==
    LET id   == Head(b.todo)
        href == Unquote(m.attrib[ElOf(m.items, id)].href)
        dest == IF href \in DOMAIN b.mapper THEN b.mapper[href] ELSE href
        r    == rename(m, None, dest, id)
    IN  [m |-> r.m,
         b |-> IF r.err = ""
               THEN [b EXCEPT !.todo = Tail(b.todo),
                              !.pathmap = IF href # Strip(dest)
                                          THEN Put(b.pathmap, href, Strip(dest))
                                          ELSE b.pathmap]
               ELSE [b EXCEPT !.todo = << >>]]

\* One turn of the loop of Manifest.batch_rename over self.filter(predicate),
\* for a mapping `mapper`: the item is renamed to what the mapping gives for
\* its href; a failure is recorded under the href the item has then
batch_rename_step(m, b) ==
    LET id   == Head(b.todo)
        href == Unquote(m.attrib[ElOf(m.items, id)].href)
        dest == IF href \in DOMAIN b.mapper THEN b.mapper[href] ELSE href
        r    == rename(m, None, dest, id)
    IN  [m |-> r.m,
         b |-> IF r.err = ""
               THEN [b EXCEPT !.todo = Tail(b.todo),
                              !.pathmap = IF href # Strip(dest)
                                          THEN Put(b.pathmap, href, Strip(dest))
                                          ELSE b.pathmap]
               ELSE [b EXCEPT !.todo = Tail(b.todo),
                              !.fails = b.fails \cup
                                  {Unquote(r.m.attrib[ElOf(r.m.items, id)].href)}]]

\* what batch_rename starts its loop with: empty pathmap and fails, and the
\* items self.filter(predicate) gives, which for a mapping are all of the dict
BatchOf(m, mapper, repair) ==
    [active |-> TRUE, todo |-> [i \in DOMAIN m.items |-> m.items[i].id],
     mapper |-> mapper, repair |-> repair, pathmap |-> EmptyFn, fails |-> {},
     repairs |-> << >>]

\* the loop of Manifest.batch_rename run to its end
RECURSIVE batch_rename_loop(_, _)
batch_rename_loop(m, b) ==
    IF b.todo = << >> THEN [m |-> m, b |-> b]
    ELSE LET r == batch_rename_step(m, b) IN batch_rename_loop(r.m, r.b)

\* what follows the loop: with repair and a pathmap that is not empty, one
\* pass of remap_links for the whole pathmap; then the call returns
BatchRepaired(p, b) ==
    [m |-> p.m, b |-> [b EXCEPT !.active = FALSE, !.repairs = p.changed]]

batch_rename_end(m, b) ==
    IF b.pathmap # EmptyFn /\ b.repair THEN BatchRepaired(remap_links(m, b.pathmap), b)
    ELSE [m |-> m, b |-> [b EXCEPT !.active = FALSE]]

\* Manifest.batch_rename(mapper, repair=repair) for a mapping: the state
\* after the call and the result it returns (b.pathmap, b.fails, b.repairs)
batch_rename(m, mapper, repair) ==
    LET l == batch_rename_loop(m, BatchOf(m, mapper, repair))
    IN  batch_rename_end(l.m, l.b)

----------------------------------------------------------------------------
(* Inputs of the calls *)

PathInputs == {A, B, <<"/", "a">>, <<"/">>, <<"U+DCFF">>}

\* the destinations given to rename and replace: also a path no book registers
DestInputs == PathInputs \cup {<<"c">>}

IdInputs == {"x"}

\* what a custom generate_id may return for a call
GeneratedIds == {"x", "g"}

\* what this session's generate_id may return for a call (None: it is not asked)
Generated == IF generate_id = "custom" THEN GeneratedIds ELSE {None}

Sources ==
    {NoSource,
     Value("stream", "", D2, << >>, <<"r">>),
     Value("str", "e1", << >>, << >>, <<"r">>),
     Value("opener", "e1", << >>, << >>, <<"r">>),
     Value("fs", "e1", << >>, << >>, <<"r", "w">>)}

ModeInputs ==
    {<<"r", "b">>, <<"w", "b">>, <<"a", "b">>, <<"r", "+", "b">>, <<"x", "b">>,
     <<"r", "w">>}

\* what the caller writes to the stream open() gave it
Written(mode) == IF Range(mode) \cap {"w", "a", "x", "+"} = {} THEN {<< >>} ELSE {<< >>, D1}

Assigned ==
    {Value("path", "", << >>, p, << >>) : p \in {A, B}} \cup
    {Value("attrs", "", << >>, B, << >>),
     Value("bytes", "", D1, << >>, << >>),
     Value("opener", "e1", << >>, << >>, << >>),
     Value("mapping", "", << >>, << >>, << >>)}

Mappings ==
    {[p \in {A, B} |-> IF p = A THEN B ELSE A],
     [p \in {A, B} |-> IF p = A THEN <<"U+DCFF">> ELSE A],
     [p \in {A, B} |-> <<"/", "c">>]}

----------------------------------------------------------------------------
(* ePub.pack *)

\* ePub._opf_name, ePub._opf_path
OpfName == <<"content.opf">>

OpfPath == joinpath(OpfDir, OpfName)

MimetypeName == <<"mimetype">>

ContainerName == <<"META-INF", "/", "container.xml">>

\* what makes write_oebps leave a resource out with a warning: its two checks,
\* and the exceptions it catches (OSError, LookupError and their subclasses)
Caught ==
    {"conflicts with OPF", "never created",
     "OSError", "FileNotFoundError", "FileExistsError", "LookupError", "KeyError"}

\* what stops write_oebps from writing href: "" when it writes it
OpenErr(m, href) ==
    IF href = OpfName THEN "conflicts with OPF"
    ELSE IF GetFile(m, href) = NoFile THEN "never created"
    ELSE FileOpen(m, GetFile(m, href), <<"r", "b">>, << >>).err

\* the paths of bad_ids and of good_ids
BadHrefs(m) == {href \in DOMAIN m.href_to_id : OpenErr(m, href) \in Caught}

GoodHrefs(m) == {href \in DOMAIN m.href_to_id : OpenErr(m, href) = ""}

\* tostring(root): the item elements in order, as [id, href], and the itemrefs
tostring(rt, at, sp) ==
    [items |-> [i \in DOMAIN rt |-> [id |-> at[rt[i]].id, href |-> at[rt[i]].href]],
     spine |-> sp]

\* manifest[:] = (item for item in manifest.iterfind("{*}item[@id]")
\*                if item._attrib["id"] in good_ids): what the assignment raises.
\* xml.etree refuses a generator; an lxml element has no _attrib, which the
\* generator meets at the first item it tests.
PruneErr(m, etree) ==
    IF etree = "xml.etree" THEN "TypeError"
    ELSE IF \E i \in DOMAIN m.root : m.attrib[m.root[i]].id # None THEN "AttributeError"
    ELSE ""

\* the pruning done on the live tree
deepcopyShared(m, good_ids) ==
    [m EXCEPT !.root = SelectSeq(m.root, LAMBDA el : m.attrib[el].id \in good_ids)]

\* root = deepcopy(root): the live tree after the pruning of the copy
deepcopy(m, good_ids) == m

\* the resources written, the warnings, the package document written and the
\* exception, given the paths left out and those whose open raises past the
\* except.  mark_modified() touches the metadata
\* only, which is not part of the state.
Oebps(m, sp, etree, bad, raising) ==
    [m |-> IF bad # {} /\ raising = {}
           THEN deepcopy(m, {m.href_to_id[href] : href \in GoodHrefs(m)}) ELSE m,
     files |-> {Entry(joinpath(OpfDir, href), Bytes(m, GetFile(m, href))) :
                   href \in GoodHrefs(m)},
     warnings |-> {[href |-> href, why |-> OpenErr(m, href)] : href \in bad},
     opf |-> IF raising # {} THEN << >>
             ELSE IF bad = {} THEN <<tostring(m.root, m.attrib, sp)>>
             ELSE IF PruneErr(m, etree) # "" THEN << >>
             ELSE <<tostring(<< >>, m.attrib, sp)>>,
     err |-> IF raising # {} THEN OpenErr(m, CHOOSE href \in raising : TRUE)
             ELSE IF bad = {} THEN ""
             ELSE PruneErr(m, etree)]

\* write_oebps(wfile).  No handle of the model raises past the except; were
\* one to, the resources written before it would depend on the order of the dict.
write_oebps(m, sp, etree) ==
    Oebps(m, sp, etree, BadHrefs(m), DOMAIN m.href_to_id \ (BadHrefs(m) \cup GoodHrefs(m)))

\* exclude_files, before the extra files
ExcludeFiles(m) == {joinpath(OpfDir, href) : href \in DOMAIN m.href_to_id} \cup {OpfPath}

\* write_extra_files(wfile, extra_files): extra_files as <<[name, type, data]>>,
\* type one of "None", "stream", "bytes", "str".  isinstance(file, (str, Pathlike))
\* raises NameError for every value that has no read().
RECURSIVE write_extra_files(_, _, _)
write_extra_files(entries, exclude, extra_files) ==
    IF extra_files = << >> THEN [entries |-> entries, exclude |-> exclude, err |-> ""]
    ELSE IF Head(extra_files).name \in exclude
    THEN write_extra_files(entries, exclude, Tail(extra_files))
    ELSE IF Head(extra_files).type = "None"
    THEN write_extra_files(entries, exclude \cup {Head(extra_files).name},
                           Tail(extra_files))
    ELSE IF Head(extra_files).type = "stream"
    THEN write_extra_files(
             Append(entries, Entry(Head(extra_files).name, Head(extra_files).data)),
             exclude \cup {Head(extra_files).name}, Tail(extra_files))
    ELSE [entries |-> entries, exclude |-> exclude \cup {Head(extra_files).name},
          err |-> "NameError"]

\* the mimetype and the container document a new book gets; <<7>> stands for
\* b"application/epub+zip" and <<8>> for the bytes of the container document
Preamble(exclude) ==
    (IF MimetypeName \in exclude THEN << >> ELSE <<Entry(MimetypeName, <<7>>)>>) \o
    (IF ContainerName \in exclude THEN << >> ELSE <<Entry(ContainerName, <<8>>)>>)

\* the original manifest forgotten
OriginalFilesNone(ep) == {}

\* the paths of the items of the package document of the original archive
OriginalFiles(ep) ==
    {normpath(joinpath(OpfDir, Unquote(ep.original[i].href))) : i \in DOMAIN ep.original}

RECURSIVE Copied(_, _, _)
\* the entries of the original archive that are copied, in its order
Copied(m, names, exclude) ==
    IF names = << >> THEN << >>
    ELSE IF Head(names) \in exclude THEN Copied(m, Tail(names), exclude)
    ELSE <<Entry(Head(names), m.zfile[Head(names)])>> \o Copied(m, Tail(names), exclude)

\* pack raised before it opened the target
PackFailed(m, dk, err) == [m |-> m, err |-> err, disk |-> dk, warnings |-> {}]

\* the with block ended: the target holds what was written up to there
PackClosed(m, dk, path, archive, err, warns) ==
    [m |-> m, err |-> err, disk |-> Put(dk, RealPath(path), archive), warnings |-> warns]

PackOebps(dk, path, head, o) ==
    PackClosed(o.m, dk, path, ArchiveOf(head, o.files, o.opf), o.err, o.warnings)

\* ZipFile(path, "w"): what it raises
ZipFileErr(path) ==
    CASE path = None -> "TypeError"
      [] path = ""   -> "FileNotFoundError"
      [] OTHER       -> ""

\* the branch of a new book, x being the result of write_extra_files
PackNew(m, ep, sp, dk, path, x) ==
    IF ZipFileErr(path) # "" THEN PackFailed(m, dk, ZipFileErr(path))
    ELSE IF x.err # "" THEN PackClosed(m, dk, path, ArchiveOf(x.entries, {}, << >>), x.err, {})
    ELSE PackOebps(dk, path, x.entries \o Preamble(x.exclude),
                   write_oebps(m, sp, ep.etree))

\* the branch of a book opened from an archive.  When the target is the
\* original file under another name, ZipFile(path, "w") has truncated what
\* _zfile reads from, and zfile.read raises BadZipFile.
PackArchive(m, ep, sp, dk, path, x) ==
    IF ZipFileErr(path) # "" THEN PackFailed(m, dk, ZipFileErr(path))
    ELSE IF x.err # "" THEN PackClosed(m, dk, path, ArchiveOf(x.entries, {}, << >>), x.err, {})
    ELSE IF RealPath(path) = RealPath(ep.path)
    THEN PackClosed(m, dk, path, ArchiveOf(x.entries, {}, << >>), "BadZipFile", {})
    ELSE PackOebps(dk, path,
                   x.entries \o Copied(m, ep.namelist, x.exclude \cup OriginalFiles(ep)),
                   write_oebps(m, sp, ep.etree))

\* no refusal at all
RefusedNever(ep, target) == FALSE

\* if path is None or path == self._path: raise ValueError
Refused(ep, target) == target = None \/ target = ep.path

\* ePub.pack(path=target, extra_files=extra_files)
pack(m, ep, sp, dk, target, extra_files) ==
    IF target \in {None, ""} /\ ep.path \in {None, ""} THEN PackFailed(m, dk, "OSError")
    ELSE IF ~ep.has_zfile
    THEN PackNew(m, ep, sp, dk, IF target = None THEN ep.path ELSE target,
                 write_extra_files(<< >>, ExcludeFiles(m), extra_files))
    ELSE IF Refused(ep, target) THEN PackFailed(m, dk, "ValueError")
    ELSE PackArchive(m, ep, sp, dk, target,
                     write_extra_files(<< >>, ExcludeFiles(m), extra_files))

----------------------------------------------------------------------------
(* Manifest.iter: the walk over the children of the manifest element *)

\* the caller puts an item element el with the attributes id and href into
\* the tree, at the front or at the end, behind the back of the Manifest
tree_insert(m, el, front, id, href) ==
    Result([m EXCEPT !.root = IF front THEN <<el>> \o m.root ELSE Append(m.root, el),
                     !.attrib = Put(m.attrib, el, [id |-> id, href |-> href])], "")

\* super().__contains__(id)
HasItem(m, id) == id # None /\ \E i \in DOMAIN m.items : m.items[i].id = id

\* root.remove(el); warn("removed a dangling item element")
IterRemoved(m, el) ==
    [m |-> Live([m EXCEPT !.root = RootRemove(m.root, el)]), err |-> "",
     warn |-> <<"removed a dangling item element">>]

IterKept(r, warn) == [m |-> r.m, err |-> r.err, warn |-> warn]

\* one turn of the loop, on the element el
IterVisit(m, el, gen_id) ==
    IF m.attrib[el].href = << >>
    THEN IF ~HasItem(m, m.attrib[el].id) THEN IterRemoved(m, el)
         ELSE IF ElOf(m.items, m.attrib[el].id) # el
         THEN IterKept(Result(m, "RuntimeError"), << >>)
         ELSE IterKept(pop(m, m.attrib[el].id),
                       <<"removed an item because of missing href attribute">>)
    ELSE IF m.attrib[el].id = None
    THEN IterKept(add(m, Unquote(m.attrib[el].href), NoSource, None, gen_id, None), << >>)
    ELSE IF HasItem(m, m.attrib[el].id)
    THEN IterKept(Result(m, IF ElOf(m.items, m.attrib[el].id) # el
                            THEN "RuntimeError" ELSE ""), << >>)
    ELSE IterRemoved(m, el)

\* the sibling that follows el, 0 if none
Succ(rt, el) == IF IndexOf(rt, el) < Len(rt) THEN rt[IndexOf(rt, el) + 1] ELSE 0

\* what the walk has seen so far: each element with the tree as it was when
\* the walk came to it, and the warnings
Seen(out, m, el, warn) ==
    [visited |-> Append(out.visited, [el |-> el, root |-> m.root]),
     warnings |-> out.warnings \o warn]

RECURSIVE IterWalk(_, _, _, _, _, _)
RECURSIVE IterTurn(_, _, _, _, _, _, _)
\* root.iterfind("*") while the loop body edits root.  xml.etree walks the
\* list of children by index (i): after a removal the element that follows is
\* skipped, and an element appended is met.  lxml keeps the sibling that
\* followed the element when it was handed out (nxt).
IterWalk(m, lib, gen_id, i, nxt, out) ==
    IF lib = "xml.etree"
    THEN IF i > Len(m.root) THEN [m |-> m, err |-> "", out |-> out]
         ELSE IterTurn(m, lib, gen_id, i, m.root[i], out, IterVisit(m, m.root[i], gen_id))
    ELSE IF nxt = 0 THEN [m |-> m, err |-> "", out |-> out]
         ELSE IterTurn(m, lib, gen_id, i, nxt, out, IterVisit(m, nxt, gen_id))

IterTurn(m, lib, gen_id, i, el, out, r) ==
    IF r.err # "" THEN [m |-> r.m, err |-> r.err, out |-> Seen(out, m, el, r.warn)]
    ELSE IterWalk(r.m, lib, gen_id, i + 1, Succ(m.root, el), Seen(out, m, el, r.warn))

\* list(Manifest.iter()): the generator run to its end
iter(m, lib, gen_id) ==
    IterWalk(m, lib, gen_id, 1, IF m.root = << >> THEN 0 ELSE m.root[1],
             [visited |-> << >>, warnings |-> << >>])

----------------------------------------------------------------------------
(* Actions: one per call *)

Becomes(r, op) ==
    /\ ~batch.active
    /\ ncalls < MaxCalls
    /\ ncalls' = ncalls + 1
    /\ items' = r.m.items
    /\ root' = r.m.root
    /\ attrib' = r.m.attrib
    /\ href_to_id' = r.m.href_to_id
    /\ href_to_file' = r.m.href_to_file
    /\ workfs' = r.m.workfs
    /\ zfile' = r.m.zfile
    /\ extfs' = r.m.extfs
    /\ nuuid' = r.m.nuuid
    /\ remaps' = r.m.remaps
    /\ streams' = r.m.streams
    /\ ret' = Ret(op, r.err)
    /\ UNCHANGED <<generate_id, batch, spine, epub, disk, warnings, tfs>>

Add(h, src, id, gen) == Becomes(add(M, h, src, id, generate_id, gen), "add")

Open(h, mode, data, gen) == Becomes(open(M, h, mode, data, generate_id, gen), "open")

Write(h, data, gen) == Becomes(write(M, h, data, generate_id, gen), "write")

Read(h) == Becomes(read(M, h), "read")

Remove(h) == Becomes(remove(M, h), "remove")

Pop(id) == Becomes(pop(M, id), "pop")

PopItem == Becomes(popitem(M), "popitem")

Clear == Becomes(clear(M), "clear")

Touch(h, gen) == Becomes(touch(M, h, generate_id, gen), "touch")

Rename(h, dest_h) == Becomes(rename(M, h, dest_h, None), "rename")

Replace(h, dest_h) == Becomes(replace(M, h, dest_h), "replace")

Stat(h) == Becomes(stat(M, h), "stat")

SetItem(id, value, gen) == Becomes(setitem(M, id, value, generate_id, gen), "setitem")

Set(id, value, gen) == Becomes(set(M, id, value, generate_id, gen), "set")

\* batch_rename(mapper): the loop starts over the items of the dict, in order
BatchRenameBegin(mapper, repair) ==
    /\ ~batch.active
    /\ ncalls < MaxCalls
    /\ ncalls' = ncalls + 1
    /\ batch' = BatchOf(M, mapper, repair)
    /\ ret' = Ret("batch_rename", "running")
    /\ UNCHANGED <<items, root, attrib, href_to_id, href_to_file, workfs, zfile,
                   extfs, nuuid, generate_id, remaps, spine, epub, disk, warnings, tfs, streams>>

BatchRenameStep ==
    /\ batch.active
    /\ batch.todo # << >>
    /\ LET r == batch_rename_step(M, batch)
       IN  /\ batch' = r.b
           /\ attrib' = r.m.attrib
           /\ href_to_id' = r.m.href_to_id
           /\ href_to_file' = r.m.href_to_file
           /\ workfs' = r.m.workfs
           /\ extfs' = r.m.extfs
           /\ nuuid' = r.m.nuuid
           /\ remaps' = r.m.remaps
    /\ UNCHANGED <<items, root, zfile, generate_id, ncalls, ret, spine, epub, disk,
                   warnings, tfs, streams>>

\* the loop is over: batch_rename returns its result
BatchRenameEnd ==
    /\ batch.active
    /\ batch.todo = << >>
    /\ LET r == batch_rename_end(M, batch)
       IN  /\ batch' = r.b
           /\ href_to_file' = r.m.href_to_file
           /\ workfs' = r.m.workfs
           /\ extfs' = r.m.extfs
           /\ nuuid' = r.m.nuuid
           /\ remaps' = r.m.remaps
    /\ ret' = Ret("batch_rename", "")
    /\ UNCHANGED <<items, root, attrib, href_to_id, zfile, generate_id, ncalls, spine,
                   epub, disk, warnings, tfs, streams>>

Next ==
    \/ \E h \in PathInputs, src \in Sources, id \in IdInputs \cup {None},
          gen \in Generated : Add(h, src, id, gen)
    \/ \E h \in PathInputs, mode \in ModeInputs, gen \in Generated :
          \E data \in Written(mode) : Open(h, mode, data, gen)
    \/ \E h \in PathInputs, data \in Data, gen \in Generated : Write(h, data, gen)
    \/ \E h \in PathInputs : Read(h)
    \/ \E h \in PathInputs : Remove(h)
    \/ \E id \in ItemIds \cup IdInputs : Pop(id)
    \/ PopItem
    \/ Clear
    \/ \E h \in PathInputs, dest_h \in DestInputs : Rename(h, dest_h)
    \/ \E h \in PathInputs, dest_h \in DestInputs : Replace(h, dest_h)
    \/ \E h \in PathInputs : Stat(h)
    \/ \E id \in ItemIds \cup IdInputs, value \in Assigned, gen \in Generated :
          SetItem(id, value, gen)
    \/ \E id \in ItemIds \cup IdInputs, value \in Assigned, gen \in Generated :
          Set(id, value, gen)
    \/ \E mapper \in Mappings : BatchRenameBegin(mapper, FALSE)
    \/ BatchRenameStep
    \/ BatchRenameEnd

Spec == Init /\ [][Next]_vars

----------------------------------------------------------------------------
(* Sessions that rename with repair: a book of text resources that refer to *)
(* each other                                                                *)

TA == <<"t", "/", "a">>

TB == <<"t", "/", "b">>

TUB == <<"t", "/", "u", "/", "b">>

S == <<"s">>

N == <<"n">>

PlainText == Chunk("text", "", "", << >>, "")

\* t/a: <a href="b#f">, <a href="http://x/y">, <img src="c">, style="url(./b)"
TextA ==
    <<Chunk("attr", "", "", <<"b">>, "f"), PlainText,
      Chunk("attr", "http", "x", <<"/", "y">>, ""),
      Chunk("attr", "", "", <<"c">>, ""),
      Chunk("url", "", "", <<".", "/", "b">>, "")>>

\* t/b: <a href="a">
TextB == <<Chunk("attr", "", "", <<"a">>, "")>>

\* s: url(t/b), url(./t/b), url(t/a)
TextS ==
    <<Chunk("url", "", "", TB, ""), Chunk("url", "", "", <<".", "/">> \o TB, ""),
      PlainText, Chunk("url", "", "", TA, "")>>

\* an archive with three text resources and with the navigation document n
\* declared in the package document and missing from the archive
TextArchive ==
    [has_zfile |-> TRUE,
     zfile |-> [n \in {OpfDir \o <<"/">> \o p : p \in {TA, TB, S}} |->
                  CASE n = OpfDir \o <<"/">> \o TA -> TextA
                    [] n = OpfDir \o <<"/">> \o TB -> TextB
                    [] OTHER -> TextS],
     desc |-> <<[id |-> "p", href |-> TA, media_type |-> "application/xhtml+xml"],
                [id |-> "q", href |-> TB, media_type |-> "text/html"],
                [id |-> "r", href |-> S, media_type |-> "text/css"],
                [id |-> "n", href |-> N, media_type |-> "application/x-dtbncx+xml"]>>]

InitRemap ==
    InitFrom(TextArchive) /\ generate_id = "None" /\ tfs = TemporaryFS({"native"}, {})

RemapPaths == {TA, TB, S, N}

RemapDests == {TUB, <<"b">>, TA, <<"/", "t", "/", "b", " ">>}

RemapMappings ==
    {[p \in {TA, TB} |-> IF p = TA THEN <<"t", "/", "u", "/", "a">> ELSE TUB],
     [p \in {TB, S} |-> IF p = TB THEN S ELSE <<"b">>]}

\* the path maps remap_links is called with: one pair, or a mapping
PathMaps ==
    {[x \in {h} |-> Strip(dest_h)] : h \in RemapPaths, dest_h \in RemapDests}
        \cup RemapMappings

\* rename(href, dest_href, repair=repair)
RenameRepair(h, dest_h, repair) ==
    Becomes(rename_repair(M, h, dest_h, None, repair), "rename")

NextRemap ==
    \/ \E h \in RemapPaths, dest_h \in RemapDests, repair \in BOOLEAN :
          RenameRepair(h, dest_h, repair)
    \/ \E h \in RemapPaths : Remove(h)
    \/ \E mapper \in RemapMappings, repair \in BOOLEAN : BatchRenameBegin(mapper, repair)
    \/ BatchRenameStep
    \/ BatchRenameEnd

SpecRemap == InitRemap /\ [][NextRemap]_vars

----------------------------------------------------------------------------
(* A session that packs: a new book or a book opened from an archive, with   *)
(* either XML library                                                        *)

\* an archive with the files of its two items, a file that is no item, and
\* an itemref to an item that does not exist
SourceArchive ==
    [has_zfile |-> TRUE,
     namelist |-> <<MimetypeName, ContainerName, OpfDir \o <<"/", "z">>,
                    OpfDir \o <<"/">> \o A, OpfDir \o <<"/">> \o B, OpfPath>>,
     zfile |-> [n \in {MimetypeName, ContainerName, OpfPath, OpfDir \o <<"/", "z">>,
                       OpfDir \o <<"/">> \o A, OpfDir \o <<"/">> \o B} |->
                  CASE n = MimetypeName -> <<7>>
                    [] n = ContainerName -> <<8>>
                    [] n = OpfPath -> <<6>>
                    [] n = OpfDir \o <<"/">> \o A -> D1
                    [] n = OpfDir \o <<"/">> \o B -> D2
                    [] OTHER -> <<3>>],
     desc |-> <<[id |-> "x", href |-> A], [id |-> "y", href |-> Quote(B)]>>,
     spine |-> <<"x", "y", "q">>]

\* ePub(), ePub("new.epub") where no such file exists, ePub("src.epub")
PackBooks ==
    {[book EXCEPT !.etree = etree] :
        book \in {NewBook @@ [path |-> None, etree |-> ""],
                  NewBook @@ [path |-> "new.epub", etree |-> ""],
                  SourceArchive @@ [etree |-> ""]},
        etree \in {"lxml", "xml.etree"}}

InitPack ==
    /\ \E book \in PackBooks : InitFrom(book)
    /\ generate_id = "None"
    /\ tfs = TemporaryFS({"native"}, {})

PackPaths == {A, <<"c">>, OpfName}

PackTargets == {None, "", SrcPath, "./src.epub", "new.epub", "out.epub"}

ExtraInputs ==
    {<< >>,
     <<[name |-> <<"extra">>, type |-> "stream", data |-> D1]>>,
     <<[name |-> MimetypeName, type |-> "None", data |-> << >>]>>,
     <<[name |-> <<"extra">>, type |-> "bytes", data |-> D1]>>}

\* pack(target, extra_files=extra_files)
Pack(target, extra_files) ==
    /\ ~batch.active
    /\ ncalls < MaxCalls
    /\ ncalls' = ncalls + 1
    /\ LET r == pack(M, epub, spine, disk, target, extra_files)
       IN  /\ root' = r.m.root
           /\ disk' = r.disk
           /\ warnings' = r.warnings
           /\ ret' = Ret("pack", r.err)
    /\ UNCHANGED <<items, attrib, href_to_id, href_to_file, workfs, zfile, extfs, nuuid,
                   generate_id, batch, remaps, spine, epub, tfs, streams>>

NextPack ==
    \/ \E h \in PackPaths, src \in {NoSource, Value("stream", "", D2, << >>, <<"r">>)} :
          Add(h, src, None, None)
    \/ \E h \in PackPaths, data \in Data : Write(h, data, None)
    \/ \E h \in {A, B} : Remove(h)
    \/ \E target \in PackTargets, extra_files \in ExtraInputs : Pack(target, extra_files)

SpecPack == InitPack /\ [][NextPack]_vars

----------------------------------------------------------------------------
(* A session that adds resources from the caller's sources and opens them *)

InitOpen == Init /\ generate_id = "None"

NextOpen ==
    \/ \E h \in {A, <<"c">>}, src \in Sources : Add(h, src, None, None)
    \/ \E h \in {A, B, <<"c">>}, mode \in ModeInputs :
          \E data \in Written(mode) : Open(h, mode, data, None)

SpecOpen == InitOpen /\ [][NextOpen]_vars

----------------------------------------------------------------------------
(* A session that reconciles: the caller edits the tree and walks it *)

\* an archive whose package document has two item elements with the id x
----------------------------------------------------------------------------
(* Manifest.glob.  A compiled pattern is a sequence of tokens: the two       *)
(* wildcards posix_glob_translate_iter yields, the dot, and for a literal    *)
(* character what re.escape makes of it.                                     *)

\* re.escape(c)
re_escape(c) ==
    CASE c = "." -> "\\."
      [] c = "*" -> "\\*"
      [] c = "?" -> "\\?"
      [] OTHER   -> c

\* fnmatch.translate(part)[4:-3].replace(".*", "[^/]*")
wildcard_translate(part) ==
    [i \in DOMAIN part |->
        CASE part[i] = "*" -> "[^/]*"
          [] part[i] = "?" -> "."
          [] OTHER         -> re_escape(part[i])]

\* posix_glob_translate_iter(pattern): the parts of the compiled pattern
posix_glob_translate_iter(pattern) ==
    LET parts == SelectSeq(Split(pattern), LAMBDA part : part # << >>)
    IN  [i \in DOMAIN parts |->
            IF parts[i] = <<"*">> THEN <<"[^/]*">>
            ELSE IF Len(parts[i]) >= 2 /\ Range(parts[i]) = {"*"}
                 THEN <<"[^/]*(?:/[^/]*)*">>
            ELSE wildcard_translate(parts[i])]

\* str.lower of one character, for (?i:...)
Lower(c) == CASE c = "X" -> "x" [] c = "C" -> "c" [] OTHER -> c

\* re_compile(pattern).fullmatch(s)
RECURSIVE fullmatch(_, _, _)
fullmatch(pattern, s, ignore_case) ==
    IF pattern = << >> THEN s = << >>
    ELSE CASE Head(pattern) = "[^/]*" ->
                 \/ fullmatch(Tail(pattern), s, ignore_case)
                 \/ s # << >> /\ Head(s) # "/" /\ fullmatch(pattern, Tail(s), ignore_case)
           [] Head(pattern) = "[^/]*(?:/[^/]*)*" ->
                 \/ fullmatch(Tail(pattern), s, ignore_case)
                 \/ s # << >> /\ fullmatch(pattern, Tail(s), ignore_case)
           [] Head(pattern) = "." ->
                 s # << >> /\ Head(s) # "\n" /\ fullmatch(Tail(pattern), Tail(s), ignore_case)
           [] OTHER ->
                 /\ s # << >>
                 /\ IF ignore_case
                    THEN Lower(Head(pattern)) = Lower(re_escape(Head(s)))
                    ELSE Head(pattern) = re_escape(Head(s))
                 /\ fullmatch(Tail(pattern), Tail(s), ignore_case)

\* list(manifest.glob(pattern, dirname, ignore_case)): the ids of the items
\* yielded.  `item` is the id when dirname is an Item; that branch reads the
\* undefined name `href`.
glob(m, pattern, dirname0, item, ignore_case) ==
    LET pat   == Strip(pattern)
        dir   == Strip(dirname0)
        parts == posix_glob_translate_iter(pat)
        regex == IF dir = << >> THEN Join(parts)
                 ELSE Join(<<[i \in DOMAIN dir |-> re_escape(dir[i])]>> \o parts)
    IN  IF pat = << >> THEN [m |-> m, err |-> "", out |-> {}]
        ELSE IF item # None THEN [m |-> m, err |-> "NameError", out |-> {}]
        ELSE [m |-> m, err |-> "",
              out |-> {m.href_to_id[href] : href \in
                         {h \in DOMAIN m.href_to_id :
                             /\ fullmatch(regex, h, ignore_case)
                             /\ HasItem(m, m.href_to_id[h])}}]

\* Sessions that look resources up by pattern: a book with text and style
\* sheets at several depths ("x" for the xhtml suffix, "c" for css)
GlobPaths ==
    {<<"T", "/", "a", ".", "x">>, <<"T", "/", "u", "/", "b", ".", "x">>,
     <<"a", ".", "x">>, <<"T", "T", "/", "a", ".", "x">>, <<"T", "/", "a", ".", "x", "x">>,
     <<"T", "/", "a", ".", "X">>, <<"T", "/", "s", ".", "c">>,
     <<"s", ".", "c">>, <<"S", "/", "s", ".", "c">>, <<"S", "/", "d", "/", "s", ".", "c">>}

GlobArchive ==
    [has_zfile |-> TRUE,
     zfile |-> [n \in {<<"O", "/", "T", "/", "a", ".", "x">>,
                       <<"O", "/", "S", "/", "s", ".", "c">>} |-> D1],
     desc |-> <<[id |-> "p", href |-> <<"T", "/", "a", ".", "x">>],
                [id |-> "q", href |-> <<"S", "/", "s", ".", "c">>]>>]

InitGlob ==
    /\ \E book \in {NewBook, GlobArchive} : InitFrom(book)
    /\ generate_id = "None"
    /\ tfs = TemporaryFS({"native"}, {})

GlobPatterns ==
    {<<"*", ".", "x">>, <<"*", "*", "/", "*", ".", "c">>, <<"*", "*">>, <<"*">>,
     <<"/">>, <<"?", ".", "x">>, <<"T", "/", "/", "*">>}

Glob(pattern, dirname0, item, ignore_case) ==
    Becomes(glob(M, pattern, dirname0, item, ignore_case), "glob")

NextGlob ==
    \/ \E h \in GlobPaths : Add(h, NoSource, None, None)
    \/ \E h \in GlobPaths : Remove(h)
    \/ \E pattern \in GlobPatterns, dirname0 \in {<< >>, <<"T">>, <<"/", "T", "/">>},
          item \in {None, "p"}, ignore_case \in BOOLEAN :
          Glob(pattern, dirname0, item, ignore_case)

SpecGlob == InitGlob /\ [][NextGlob]_vars

\* Sessions on a book whose package document writes paths with a slash at
\* either end
SlashArchive ==
    [has_zfile |-> TRUE,
     zfile |-> [n \in {<<"O", "/", "a">>} |-> D1],
     desc |-> <<[id |-> "x", href |-> <<"/", "a">>],
                [id |-> "y", href |-> <<"b", "/">>],
                [id |-> "z", href |-> <<"c">>]>>]

LoadPaths == {A, <<"/", "a">>, <<"b", "/">>, <<"c">>, <<"d">>}

InitLoad ==
    /\ \E book \in {Archive, SlashArchive} : InitFrom(book)
    /\ generate_id = "None"
    /\ tfs = TemporaryFS({"native"}, {})

NextLoad ==
    \/ \E h \in LoadPaths : Add(h, NoSource, None, None)
    \/ \E h \in LoadPaths, mode \in {<<"r", "b">>, <<"w", "b">>} :
          Open(h, mode, << >>, None)
    \/ \E h \in LoadPaths, dest_h \in LoadPaths : Rename(h, dest_h)
    \/ \E h \in LoadPaths, dest_h \in LoadPaths : Replace(h, dest_h)
    \/ \E mapper \in {[p \in {<<"c">>} |-> <<"/", "d", "/">>]} : BatchRenameBegin(mapper, FALSE)
    \/ BatchRenameStep
    \/ BatchRenameEnd

SpecLoad == InitLoad /\ [][NextLoad]_vars

\* Sessions that open resources kept read-only on the caller's filesystem:
\* the file is there, is missing, cannot be opened, or cannot be read
Backings ==
    {NoSource} \cup
    {Value("fs", name, << >>, << >>, <<"r">>) : name \in {"e1", "e2", "e3", "e4"}}

CopyModes ==
    {<<"r", "b">>, <<"w", "b">>, <<"a", "b">>, <<"r", "+", "b">>, <<"x", "b">>}

InitCopy == Init /\ generate_id = "None"

NextCopy ==
    \/ \E h \in {<<"c">>, <<"d">>}, src \in Backings : Add(h, src, None, None)
    \/ \E h \in {A, <<"c">>}, mode \in CopyModes :
          \E data \in Written(mode) : Open(h, mode, data, None)
    \/ \E h \in {A, <<"c">>} : Touch(h, None)
    \/ \E id \in ItemIds : SetItem(id, Value("opener", "e1", << >>, << >>, << >>), None)
    \/ Clear

SpecCopy == InitCopy /\ [][NextCopy]_vars

\* Sessions on a TemporaryFS alone: a provider of each kind the constructor
\* accepts, in a flat namespace possibly holding a file of its own
TfsNames == {"f", "p"}

InitTemp ==
    /\ InitFrom(NewBook)
    /\ generate_id = "None"
    /\ \E have \in Providers, files \in {{}, {"p"}} :
          /\ TemporaryFSRaises(have) = ""
          /\ tfs = TemporaryFS(have, files)

TfsBecomes(r, op) ==
    /\ ncalls < MaxCalls
    /\ ncalls' = ncalls + 1
    /\ tfs' = r.t
    /\ ret' = Ret(op, r.err)
    /\ UNCHANGED <<items, root, attrib, href_to_id, href_to_file, workfs, zfile, extfs,
                   nuuid, generate_id, batch, remaps, spine, epub, disk, warnings, streams>>

TfsOpen(path, mode) == TfsBecomes(_open(tfs, path, mode), "open")

TfsRemove(path) == TfsBecomes(_remove(tfs, path), "remove")

Cleanup == TfsBecomes(cleanup(tfs), "cleanup")

NextTemp ==
    \/ \E path \in TfsNames, mode \in {"r", "w", "a", "x"} : TfsOpen(path, mode)
    \/ \E path \in TfsNames : TfsRemove(path)
    \/ Cleanup

SpecTemp == InitTemp /\ [][NextTemp]_vars

TwinArchive ==
    [has_zfile |-> TRUE,
     zfile |-> [n \in {OpfDir \o <<"/">> \o A} |-> D1],
     desc |-> <<[id |-> "x", href |-> A], [id |-> "y", href |-> <<"c">>],
                [id |-> "x", href |-> <<"d">>]>>]

IterBooks ==
    {book @@ [etree |-> etree] :
        book \in {NewBook, Archive, TwinArchive}, etree \in {"lxml", "xml.etree"}}

InitIter ==
    /\ \E book \in IterBooks : InitFrom(book)
    /\ generate_id = "None"
    /\ tfs = TemporaryFS({"native"}, {})

\* the caller's edit of the tree; the element is told apart by the number of the call
TreeInsert(front, id, href) ==
    Becomes(tree_insert(M, 20 + ncalls, front, id, href), "insert")

\* list(manifest.iter())
Iter == Becomes(iter(M, epub.etree, generate_id), "iter")

NextIter ==
    \/ \E front \in BOOLEAN, id \in {None, "x", "p"}, href \in {<< >>, A, <<"c">>} :
          TreeInsert(front, id, href)
    \/ Iter
    \/ \E h \in {A, <<"c">>} : Add(h, NoSource, None, None)
    \/ \E h \in {A, <<"c">>} : Remove(h)

SpecIter == InitIter /\ [][NextIter]_vars

----------------------------------------------------------------------------
(* The consistency of the three indices *)

\* the paths and ids any of the indices knows
KnownPaths == DOMAIN href_to_id \cup {ItemHref(id) : id \in ItemIds}

KnownIds == ItemIds \cup {href_to_id[p] : p \in DOMAIN href_to_id}

\* C1: between calls, whether the last call returned or raised, path->id and
\* id->item are inverses of each other, every key of path->handle is a key of
\* path->id, and the item elements of the tree are exactly the registered items.
IndicesAgree ==
    ~batch.active =>
        /\ \A p \in KnownPaths, id \in KnownIds :
              (id \in ItemIds /\ ItemHref(id) = p)
                  <=> (p \in DOMAIN href_to_id /\ href_to_id[p] = id)
        /\ DOMAIN href_to_file \subseteq DOMAIN href_to_id
        /\ Range(root) = {items[i].el : i \in DOMAIN items}
        /\ Len(root) = Len(items)

----------------------------------------------------------------------------
(* Stored bytes: what a read gives back, and which calls leave it alone *)

\* the outcome of read(p) in state m
ReadOf(m, p) == [err |-> read(m, p).err, data |-> read(m, p).data]

WriteIntent(mode) == Range(mode) \cap {"w", "a", "x", "+"} # {}

\* id is the id of the resource at p
IdOf(p, id) ==
    \/ p \in DOMAIN href_to_id /\ href_to_id[p] = id
    \/ id \in ItemIds /\ ItemHref(id) = p

\* the call that gave r left read(p) as it is now
KeepsRead(p, r) == ReadOf(r.m, p) = ReadOf(M, p)

\* every call that is not a write, removal, replacement, renaming or
\* assignment of the resource at p, made in the current state, leaves read(p)
\* as it is; so does a turn of a running batch_rename on another resource
OtherCallsKeepRead(p) ==
    IF batch.active
    THEN batch.todo # << >> /\ ~IdOf(p, Head(batch.todo))
            /\ (\A q \in DOMAIN batch.mapper :
                    IdOf(q, Head(batch.todo)) => Strip(batch.mapper[q]) # p)
            => KeepsRead(p, batch_rename_step(M, batch))
    ELSE
    /\ \A h \in PathInputs, src \in Sources, id \in IdInputs \cup {None}, gen \in Generated :
          Strip(h) # p => KeepsRead(p, add(M, h, src, id, generate_id, gen))
    /\ \A h \in PathInputs, mode \in ModeInputs, gen \in Generated :
          \A data \in Written(mode) :
              Strip(h) # p \/ ~WriteIntent(mode)
                  => KeepsRead(p, open(M, h, mode, data, generate_id, gen))
    /\ \A h \in PathInputs, data \in Data, gen \in Generated :
          Strip(h) # p => KeepsRead(p, write(M, h, data, generate_id, gen))
    /\ \A h \in PathInputs : KeepsRead(p, read(M, h))
    /\ \A h \in PathInputs : Strip(h) # p => KeepsRead(p, remove(M, h))
    /\ \A id \in ItemIds \cup IdInputs : ~IdOf(p, id) => KeepsRead(p, pop(M, id))
    /\ items # << >> /\ ~IdOf(p, Last(items).id) => KeepsRead(p, popitem(M))
    /\ \A h \in PathInputs, dest_h \in DestInputs :
          Strip(h) # p /\ Strip(dest_h) # p
              => /\ KeepsRead(p, rename(M, h, dest_h, None))
                 /\ KeepsRead(p, replace(M, h, dest_h))
    /\ \A id \in ItemIds \cup IdInputs, value \in Assigned, gen \in Generated :
          ~IdOf(p, id) /\ Strip(value.path) # p
              => KeepsRead(p, setitem(M, id, value, generate_id, gen))

\* C2: a successful write(p, d), and a successful add(p, stream holding d),
\* leave a state in which read(p) returns exactly d; and the bytes read(p)
\* returns for a scratch-backed p are the same after any call that is not a
\* write, removal, replacement, renaming or assignment of p.
ReadReturnsWritten ==
    /\ \A h \in PathInputs, data \in Data, gen \in Generated :
          LET r == write(M, h, data, generate_id, gen)
          IN  r.err = "" => ReadOf(r.m, Strip(h)) = [err |-> "", data |-> data]
    /\ \A h \in PathInputs, src \in Sources, id \in IdInputs \cup {None}, gen \in Generated :
          LET r == add(M, h, src, id, generate_id, gen)
          IN  r.err = "" /\ src.type = "stream"
                  => ReadOf(r.m, Strip(h)) = [err |-> "", data |-> src.data]
    /\ \A p \in DOMAIN href_to_id :
          GetFile(M, p).kind = "temp" /\ ReadOf(M, p).err = ""
              => OtherCallsKeepRead(p)

----------------------------------------------------------------------------
(* Copy-on-write of archive-backed resources *)

\* the scratch file of the handle at p exists
InScratch(m, p) ==
    /\ GetFile(m, p).kind = "temp"
    /\ GetFile(m, p).path[1] \in DOMAIN m.workfs

\* C3: write(p, d) on an archive-backed p succeeds, leaves every entry of the
\* archive as it was, makes read(p) return exactly d and leaves p with a
\* TempFile handle whose file is in the scratch store; an open of p with any
\* other write intent that succeeds also leaves the archive as it was and p
\* with a TempFile handle.
ArchiveNeverWritten ==
    \A p \in DOMAIN href_to_id :
        GetFile(M, p).kind = "zip" =>
            /\ \A data \in Data, gen \in Generated :
                  LET r == write(M, p, data, generate_id, gen)
                  IN  /\ r.err = ""
                      /\ r.m.zfile = zfile
                      /\ ReadOf(r.m, p) = [err |-> "", data |-> data]
                      /\ InScratch(r.m, p)
            /\ \A mode \in ModeInputs, gen \in Generated :
                  \A data \in Written(mode) :
                      LET r == open(M, p, mode, data, generate_id, gen)
                      IN  /\ r.m.zfile = zfile
                          /\ WriteIntent(mode) /\ r.err = "" => InScratch(r.m, p)

\* the first call on the book opened from the archive wrote D2 to its item a,
\* whose archive entry holds D1
ArchiveNeverWritten_witness ==
    /\ ret = Ret("write", "") /\ ncalls = 1
    /\ zfile = Archive.zfile /\ zfile[<<"O", "/", "a">>] = D1
    /\ InScratch(M, A)
    /\ ReadOf(M, A) = [err |-> "", data |-> D2]

----------------------------------------------------------------------------
(* Caller-supplied handles *)

External(file) == file.kind \in {"opener", "fs"}

\* the open_modes argument given with the source names every write capability
\* `mode` asks for
Declares(src, mode) ==
    Range(mode) \cap {"w", "a", "x", "+"} \subseteq Range(src.open_modes)

----------------------------------------------------------------------------
(* Collisions on add *)

\* the id add() gives the new item: the id argument, else what generate_id
\* returns, else the uuid
AddedId(id, gen) ==
    IF id # None THEN id ELSE IF generate_id = "None" THEN uuid4(M) ELSE gen

\* C5: add() of a path that, trimmed of slashes, is registered, or with a
\* supplied or generated id that is registered, raises FileExistsError (the
\* already-exists error) and leaves the indices, the tree and the stores as
\* they were.
AddCollisionRaisesAlreadyExists ==
    ~batch.active =>
    \A h \in PathInputs, src \in Sources, id \in IdInputs \cup {None}, gen \in Generated :
        LET r == add(M, h, src, id, generate_id, gen)
        IN  Strip(h) # << >>
            /\ (Strip(h) \in DOMAIN href_to_id \/ AddedId(id, gen) \in ItemIds)
                => r.err = "FileExistsError" /\ r.m = M

----------------------------------------------------------------------------
(* rename *)

\* unquote(item._attrib["href"]) of the item the dict of m holds for id
HrefOf(m, id) == Unquote(m.attrib[ElOf(m.items, id)].href)

\* C6: rename(p, q) with q registered and different from p raises
\* FileExistsError and leaves everything as it was; a rename(p, q) that
\* returns, with q different from p, leaves the id of p registered at q and
\* not at p, the href of its item equal to q, and the handle of p at q and
\* not at p.
RenameCollisionOrAllUpdated ==
    ~batch.active =>
    \A h \in PathInputs, dest_h \in DestInputs :
        LET p == Strip(h)
            q == Strip(dest_h)
            r == rename(M, h, dest_h, None)
        IN  p # << >> /\ q # p =>
            /\ q \in DOMAIN href_to_id => r.err = "FileExistsError" /\ r.m = M
            /\ r.err = "" =>
                  /\ q \in DOMAIN r.m.href_to_id /\ p \notin DOMAIN r.m.href_to_id
                  /\ r.m.href_to_id[q] = href_to_id[p]
                  /\ HrefOf(r.m, href_to_id[p]) = q
                  /\ r.m.attrib[ElOf(r.m.items, href_to_id[p])].href = Quote(q)
                  /\ q \in DOMAIN r.m.href_to_file /\ p \notin DOMAIN r.m.href_to_file
                  /\ r.m.href_to_file[q] = GetFile(M, p)

\* a rename onto a registered path has raised, and a rename has returned
RenameCollisionOrAllUpdated_witness ==
    /\ ret = Ret("rename", "FileExistsError")
    /\ {A, B} \subseteq DOMAIN href_to_id
    /\ rename(M, A, <<"c">>, None).err = ""

\* C7: after a rename(p, q) that returns, with q different from p, the id that
\* was registered at p is registered at q and the dict holds the same item for
\* it, the handle that was at p is at q, p is not registered, and the id, href
\* and handle of every other resource, the tree and the stores are as before.
RenameFrame ==
    ~batch.active =>
    \A h \in PathInputs, dest_h \in DestInputs :
        LET p == Strip(h)
            q == Strip(dest_h)
            r == rename(M, h, dest_h, None)
        IN  p # << >> /\ q # p /\ r.err = "" =>
            /\ r.m.href_to_id[q] = href_to_id[p]
            /\ r.m.items = items /\ r.m.root = root
            /\ p \in DOMAIN href_to_file => r.m.href_to_file[q] = href_to_file[p]
            /\ p \notin DOMAIN r.m.href_to_id /\ p \notin DOMAIN r.m.href_to_file
            /\ \A o \in DOMAIN href_to_id \ {p} :
                  o \in DOMAIN r.m.href_to_id /\ r.m.href_to_id[o] = href_to_id[o]
            /\ DOMAIN r.m.href_to_id = (DOMAIN href_to_id \ {p}) \cup {q}
            /\ \A o \in DOMAIN href_to_file \ {p} :
                  o \in DOMAIN r.m.href_to_file /\ r.m.href_to_file[o] = href_to_file[o]
            /\ \A id \in ItemIds \ {href_to_id[p]} : HrefOf(r.m, id) = HrefOf(M, id)
            /\ r.m.workfs = workfs /\ r.m.zfile = zfile /\ r.m.extfs = extfs

----------------------------------------------------------------------------
(* remove *)

\* C9: remove(p) of a registered p returns; if p had a TempFile handle its
\* scratch file is not in the scratch store afterwards; if p had an archive
\* handle the archive is as it was; and p has no path->id entry, no
\* path->handle entry, and its id has no item in the dict or the tree.
RemoveErasesAndDeletes ==
    ~batch.active =>
    \A h \in PathInputs :
        LET p == Strip(h)
            file == GetFile(M, p)
            r == remove(M, h)
        IN  p \in DOMAIN href_to_id /\ file.kind \in {"temp", "zip"} =>
            /\ r.err = ""
            /\ file.kind = "temp" => file.path[1] \notin DOMAIN r.m.workfs
            /\ file.kind = "zip" => r.m.zfile = zfile
            /\ p \notin DOMAIN r.m.href_to_id
            /\ p \notin DOMAIN r.m.href_to_file
            /\ \A i \in DOMAIN r.m.items : r.m.items[i].id # href_to_id[p]
            /\ \A e \in Range(r.m.root) : r.m.attrib[e].id # href_to_id[p]

\* remove("a") returned on the book opened from the archive: the entries of a
\* are gone and the archive still holds the entry of a
RemoveErasesAndDeletes_witness ==
    /\ ret = Ret("remove", "") /\ ncalls = 1
    /\ A \notin DOMAIN href_to_id /\ A \notin DOMAIN href_to_file
    /\ "x" \notin ItemIds
    /\ zfile = Archive.zfile /\ <<"O", "/", "a">> \in DOMAIN zfile

----------------------------------------------------------------------------
(* batch_rename *)

\* no two items of the dict of m have the same href
NoSharedPath(m) ==
    \A i, j \in DOMAIN m.items :
        i # j => HrefOf(m, m.items[i].id) # HrefOf(m, m.items[j].id)

\* C10: no turn of a running batch_rename, taken in a state where no two items
\* share a path, gives a state where two items share one; so none is reached
\* during or after the call.
BatchNeverSharesPath ==
    batch.active /\ batch.todo # << >> /\ NoSharedPath(M)
        => NoSharedPath(batch_rename_step(M, batch).m)

\* the path the mapping `mapper` gives for the path p, as rename takes it
MappedTo(mapper, p) == Strip(IF p \in DOMAIN mapper THEN mapper[p] ELSE p)

\* C11: batch_rename called in any state with any mapping returns a result,
\* whatever renames fail: every item either keeps its path, and then the path
\* is a key of fails unless the mapping asked for no change, or has the path
\* the mapping gives, and then pathmap has the pair; pathmap has no other
\* pair and fails no other key.
BatchRecordsFailuresAndRenames ==
    \A mapper \in Mappings :
        LET r == batch_rename(M, mapper, FALSE)
        IN  /\ r.b.todo = << >> /\ ~r.b.active
            /\ r.m.items = items
            /\ \A id \in ItemIds :
                  LET old  == HrefOf(M, id)
                      new  == HrefOf(r.m, id)
                      want == MappedTo(mapper, old)
                  IN  /\ new \in {old, want}
                      /\ new # want => old \in r.b.fails
                      /\ new # old =>
                            old \in DOMAIN r.b.pathmap /\ r.b.pathmap[old] = new
            /\ \A p \in DOMAIN r.b.pathmap :
                  /\ p # r.b.pathmap[p]
                  /\ \E id \in ItemIds :
                        HrefOf(M, id) = p /\ HrefOf(r.m, id) = r.b.pathmap[p]
            /\ \A p \in r.b.fails :
                  \E id \in ItemIds : HrefOf(M, id) = p /\ HrefOf(r.m, id) = p

\* a batch_rename of two items returned: the rename of one failed and is in
\* fails under the path the item still has, the other was applied and is in
\* pathmap
BatchRecordsFailuresAndRenames_witness ==
    /\ ret = Ret("batch_rename", "") /\ ~batch.active
    /\ batch.fails = {B} /\ HrefOf(M, "y") = B
    /\ DOMAIN batch.pathmap = {A} /\ HrefOf(M, "x") = batch.pathmap[A]

----------------------------------------------------------------------------
(* The Link Remapper *)

\* C12: a turn of the loop of a running batch_rename runs no pass of
\* remap_links, and batch_rename with repair, called in any state with any
\* mapping, adds at most one pass to the log: that pass was given the whole
\* pathmap the call returns and saw the index as the call leaves it, all
\* renames applied.
BatchRemapsOnceAfterRenames ==
    /\ batch.active /\ batch.todo # << >> =>
            batch_rename_step(M, batch).m.remaps = remaps
    /\ \A mapper \in RemapMappings :
            LET r == batch_rename(M, mapper, TRUE)
                n == Len(remaps)
            IN  /\ Len(r.m.remaps) \in {n, n + 1}
                /\ SubSeq(r.m.remaps, 1, n) = remaps
                /\ Len(r.m.remaps) = n + 1 =>
                      /\ r.m.remaps[n + 1].pathmap = r.b.pathmap
                      /\ r.m.remaps[n + 1].index = r.m.href_to_id

\* a batch_rename with repair returned after renaming two resources: there
\* was one pass, with both pairs
BatchRemapsOnceAfterRenames_witness ==
    /\ ret = Ret("batch_rename", "") /\ ~batch.active /\ batch.repair
    /\ Cardinality(DOMAIN batch.pathmap) = 2
    /\ Len(remaps) = 1 /\ remaps[1].pathmap = batch.pathmap
    /\ batch.repairs # << >>

\* the references a pass scans in a resource of media type mt
PatternsOf(mt) ==
    UNION {LINK_PATTERNS[k].patterns :
              k \in {j \in DOMAIN LINK_PATTERNS : mt \in LINK_PATTERNS[j].predicate}}

\* the chunk c of a resource of media type mt is a relative reference
RelativeRef(c, mt) == c.kind \in PatternsOf(mt) /\ c.scheme = "" /\ c.netloc = ""

\* the path a relative reference of a resource in the directory dir resolves to
ResolvesTo(c, dir) == normpath(joinpath(dir, Unquote(c.path)))

\* the text of the resource id after rename(old, new, repair=True) gave r:
\* every relative reference that resolved to old resolves to new and is
\* written as new relative to the directory of the resource, and every other
\* chunk is as it was
Repointed(id, old, new, r) ==
    LET dir    == dirname(HrefOf(M, id))
        mt     == MediaType(M, id)
        before == read_text(M, id).text
        after  == read_text(r.m, id)
    IN  /\ after.err = ""
        /\ Len(after.text) = Len(before)
        /\ \A i \in DOMAIN before :
              IF RelativeRef(before[i], mt) /\ ResolvesTo(before[i], dir) = old
              THEN /\ ResolvesTo(after.text[i], dir) = new
                   /\ Unquote(after.text[i].path) = relpath(new, dir)
                   /\ after.text[i] = [before[i] EXCEPT !.path = after.text[i].path]
              ELSE after.text[i] = before[i]

\* C13: after rename(old, new, repair=True) returned, in every readable text
\* resource other than the renamed one each relative reference that resolved
\* to old resolves to new, written relative to the same directory, and
\* references with a scheme or a netloc and references to other paths are
\* unchanged.
RepairRepointsReferences ==
    \A h \in RemapPaths, dest_h \in RemapDests :
        LET r == rename_repair(M, h, dest_h, None, TRUE)
        IN  r.err = "" /\ Strip(h) # Strip(dest_h) =>
                \A id \in ItemIds :
                    /\ HrefOf(M, id) # Strip(h)
                    /\ PatternsOf(MediaType(M, id)) # {}
                    /\ read_text(M, id).err = ""
                    => Repointed(id, Strip(h), Strip(dest_h), r)

\* C14: the list remap_links returns, for any path map in any state, names
\* exactly the resources whose text the pass changed, each once.
RemapReturnsTheRewritten ==
    \A pathmap \in PathMaps :
        LET p == remap_links(M, pathmap)
        IN  /\ \A id \in ItemIds :
                  read_text(p.m, id).text # read_text(M, id).text
                      <=> HrefOf(M, id) \in Range(p.changed)
            /\ \A i, j \in DOMAIN p.changed : p.changed[i] = p.changed[j] => i = j

\* m with the media type of the item id replaced by one no pass selects
NotScanned(m, id) ==
    [m EXCEPT !.attrib = [m.attrib EXCEPT ![ElOf(m.items, id)].media_type = "image/png"]]

\* what a caller can see of the files after a pass
FilesOf(m) == <<m.href_to_file, m.workfs, m.zfile, m.extfs>>

\* C15: when a resource a pass selects cannot be read, the pass still returns,
\* leaves that resource as it was and out of the list, treats every other
\* resource as it would without the failing one, and records the failure: what
\* it returns or leaves behind differs from a pass that never selected the
\* resource.
RemapSkipsAndRecordsFailures ==
    \A pathmap \in PathMaps, id \in ItemIds :
        PatternsOf(MediaType(M, id)) # {} /\ read_text(M, id).err # "" =>
            LET p == remap_links(M, pathmap)
                q == remap_links(NotScanned(M, id), pathmap)
            IN  /\ HrefOf(M, id) \notin Range(p.changed)
                /\ GetFile(p.m, HrefOf(M, id)) = GetFile(M, HrefOf(M, id))
                /\ \A other \in ItemIds \ {id} :
                      read_text(p.m, other).text = read_text(q.m, other).text
                /\ p.changed # q.changed \/ FilesOf(p.m) # FilesOf(q.m)

----------------------------------------------------------------------------
(* Packing *)

\* the resources whose handle raises when it is opened for reading
Unopenable(m) ==
    {href \in DOMAIN m.href_to_id :
        GetFile(m, href) # NoFile
            /\ FileOpen(m, GetFile(m, href), <<"r", "b">>, << >>).err # ""}

\* the targets pack accepts: a file to write that is not the original archive
Accepted(ep, target) ==
    /\ target # ""
    /\ IF ep.has_zfile THEN target # None /\ RealPath(target) # RealPath(ep.path)
       ELSE target # None \/ ep.path # None

\* the file pack writes for a target
Written_to(ep, target) == RealPath(IF target = None THEN ep.path ELSE target)

\* C16: packing a Manifest of N live resources of which exactly one has a
\* handle that raises on open completes without raising; the package document
\* of the archive has N - 1 item entries and a warning names the dropped resource.
PackDropsTheUnopenable ==
    \A target \in PackTargets :
        LET p == pack(M, epub, spine, disk, target, << >>)
        IN  (/\ ~batch.active
             /\ Accepted(epub, target)
             /\ OpfName \notin DOMAIN href_to_id
             /\ Cardinality(Unopenable(M)) = 1)
            => /\ p.err = ""
               /\ p.disk[Written_to(epub, target)].opf # << >>
               /\ Len(p.disk[Written_to(epub, target)].opf[1].items)
                      = Cardinality(DOMAIN href_to_id) - 1
               /\ \E w \in p.warnings : w.href \in Unopenable(M)

\* the archive pack wrote for a target
Packed(target, extra_files) ==
    pack(M, epub, spine, disk, target, extra_files).disk[Written_to(epub, target)]

\* C17: in every archive pack produces, every reference of the serialized
\* package document points to something present: the path of each manifest
\* item is an entry written to the archive, and the idref of each spine
\* itemref is the id of an item of the document.
PackedReferencesResolve ==
    \A target \in PackTargets, extra_files \in ExtraInputs :
        (~batch.active /\ Accepted(epub, target)
            /\ Packed(target, extra_files).opf # << >>)
        => LET a   == Packed(target, extra_files)
               doc == a.opf[1]
           IN  /\ \A i \in DOMAIN doc.items :
                     joinpath(OpfDir, Unquote(doc.items[i].href))
                        \in {e.name : e \in a.oebps}
               /\ \A j \in DOMAIN doc.spine :
                     \E i \in DOMAIN doc.items : doc.items[i].id = doc.spine[j]

\* the manifest half of C17 alone
PackedItemsResolve ==
    \A target \in PackTargets, extra_files \in ExtraInputs :
        (~batch.active /\ Accepted(epub, target)
            /\ Packed(target, extra_files).opf # << >>)
        => \A i \in DOMAIN Packed(target, extra_files).opf[1].items :
              joinpath(OpfDir, Unquote(Packed(target, extra_files).opf[1].items[i].href))
                 \in {e.name : e \in Packed(target, extra_files).oebps}

\* C18: the pruning of the resources pack drops is applied to a private copy
\* of the tree: after pack, whether it returned or raised, the live manifest
\* element, id->item, path->id and path->handle hold exactly the resources
\* they held before.
PackPrunesACopy ==
    \A target \in PackTargets, extra_files \in ExtraInputs :
        LET p == pack(M, epub, spine, disk, target, extra_files)
        IN  ~batch.active =>
               /\ p.m.root = root
               /\ p.m.attrib = attrib
               /\ p.m.items = items
               /\ p.m.href_to_id = href_to_id
               /\ p.m.href_to_file = href_to_file

\* a pack has dropped a resource, which is still in the tree and in the indices
PackPrunesACopy_witness ==
    /\ ret.op = "pack"
    /\ warnings # {}
    /\ \A w \in warnings :
          /\ w.href \in DOMAIN href_to_id /\ w.href \in DOMAIN href_to_file
          /\ href_to_id[w.href] \in ItemIds
          /\ \E i \in DOMAIN root : attrib[root[i]].id = href_to_id[w.href]

\* C19: on a session opened from an existing archive, pack with no target,
\* or with a target equal to the path of the source, is refused before
\* anything is written: the call raises and the source archive is unchanged.
PackRefusesTheSource ==
    \A target \in {None, epub.path}, extra_files \in ExtraInputs :
        LET p == pack(M, epub, spine, disk, target, extra_files)
        IN  (~batch.active /\ epub.has_zfile) =>
               /\ p.err = "ValueError"
               /\ p.disk = disk

\* such a pack was refused after other calls, and the source is as it was
PackRefusesTheSource_witness ==
    /\ epub.has_zfile
    /\ ret = Ret("pack", "ValueError")
    /\ ncalls = MaxCalls
    /\ disk = DiskOf(SourceArchive)

\* the entries of an archive pack wrote that were written first, if any
FirstWritten(a) ==
    IF a.entries # << >> THEN {a.entries[1].name}
    ELSE IF a.oebps # {} THEN {e.name : e \in a.oebps}
    ELSE IF a.opf # << >> THEN {OpfPath}
    ELSE {}

\* C20: in every archive pack produces, for a new book as for a repackaged
\* one and with or without extra_files, the mimetype entry is the first
\* entry written.
PackWritesMimetypeFirst ==
    \A target \in PackTargets, extra_files \in ExtraInputs :
        (~batch.active /\ Accepted(epub, target)
            /\ pack(M, epub, spine, disk, target, extra_files).err = "")
        => FirstWritten(Packed(target, extra_files)) = {MimetypeName}

\* C20 without extra_files
PackWritesMimetypeFirstAlone ==
    \A target \in PackTargets :
        (~batch.active /\ Accepted(epub, target)
            /\ pack(M, epub, spine, disk, target, << >>).err = "")
        => FirstWritten(Packed(target, << >>)) = {MimetypeName}

\* the extra_files inputs that name no entry of the original archive
ExtraBeside == {x \in ExtraInputs : \A i \in DOMAIN x : x[i].name \notin Range(epub.namelist)}

\* the names of the entries of an archive pack wrote
NamesIn(a) == {a.entries[i].name : i \in DOMAIN a.entries} \cup {e.name : e \in a.oebps}

\* where the original archive keeps the resources its own manifest declares
DeclaredEntries ==
    {joinpath(OpfDir, Unquote(epub.original[i].href)) : i \in DOMAIN epub.original}

----------------------------------------------------------------------------
(* Reconciliation *)

\* two distinct item elements of the tree carry the same id
TwinIds(m) ==
    \E i, j \in DOMAIN m.root :
        i # j /\ m.attrib[m.root[i]].id # None
              /\ m.attrib[m.root[i]].id = m.attrib[m.root[j]].id

\* C22: a pass of iter over a tree in which two distinct item elements carry
\* the same id does not raise and runs to its end: it prunes the duplicate
\* from the tree and reports a warning.
IterPrunesTwins ==
    (~batch.active /\ TwinIds(M))
    => /\ iter(M, epub.etree, generate_id).err = ""
       /\ iter(M, epub.etree, generate_id).out.warnings # << >>
       /\ ~TwinIds(iter(M, epub.etree, generate_id).m)

\* C22 for twins of an id that is not registered
IterPrunesUnregisteredTwins ==
    (~batch.active /\ TwinIds(M)
        /\ \A i \in DOMAIN root : ~HasItem(M, attrib[root[i]].id))
    => /\ iter(M, epub.etree, generate_id).err = ""
       /\ iter(M, epub.etree, generate_id).out.warnings # << >>
       /\ ~TwinIds(iter(M, epub.etree, generate_id).m)

\* C29: during a pass of iter the tree and the indices are not modified while
\* the walk over the children is in progress: every element the walk comes to
\* is an element the tree held when the pass began, and the tree is then still
\* as it was at the beginning.
IterWalksAFrozenTree ==
    ~batch.active =>
        \A k \in DOMAIN iter(M, epub.etree, generate_id).out.visited :
            /\ iter(M, epub.etree, generate_id).out.visited[k].el \in Range(root)
            /\ iter(M, epub.etree, generate_id).out.visited[k].root = root

\* the second half of C29 alone: the walk never comes to an element that the
\* same pass added
IterSkipsItsAdditions ==
    ~batch.active =>
        \A k \in DOMAIN iter(M, epub.etree, generate_id).out.visited :
            iter(M, epub.etree, generate_id).out.visited[k].el \in Range(root)

\* a tree in which every item element is a registered item of its own id
Reconciled(m) ==
    /\ \A i \in DOMAIN m.root :
          /\ m.attrib[m.root[i]].href # << >>
          /\ HasItem(m, m.attrib[m.root[i]].id)
          /\ ElOf(m.items, m.attrib[m.root[i]].id) = m.root[i]
          /\ Unquote(m.attrib[m.root[i]].href) \in DOMAIN m.href_to_id
          /\ m.href_to_id[Unquote(m.attrib[m.root[i]].href)] = m.attrib[m.root[i]].id
          /\ Unquote(m.attrib[m.root[i]].href) \in DOMAIN m.href_to_file
    /\ \A i, j \in DOMAIN m.root :
          i # j => /\ m.attrib[m.root[i]].id # m.attrib[m.root[j]].id
                   /\ Unquote(m.attrib[m.root[i]].href) # Unquote(m.attrib[m.root[j]].href)

\* the tree holds an item element with a path and no id
HasUntracked(m) ==
    \E i \in DOMAIN m.root :
        m.attrib[m.root[i]].id = None /\ m.attrib[m.root[i]].href # << >>

\* C30: a pass of iter run to its end over a tree with an item element that
\* has a path and no id gives that element an id and registers it: afterwards
\* every item element of the tree is one registered resource with an id and a
\* path of its own, and a second pass changes nothing and raises nothing.
IterRegistersUntracked ==
    (~batch.active /\ HasUntracked(M) /\ iter(M, epub.etree, generate_id).err = "")
    => LET m1 == iter(M, epub.etree, generate_id).m
       IN  /\ Reconciled(m1)
           /\ iter(m1, epub.etree, generate_id).err = ""
           /\ iter(m1, epub.etree, generate_id).m = m1

----------------------------------------------------------------------------
(* The modes a handle can be opened in *)

\* the handles of the Manifest, and a handle for every capability mask
\* _init_open computes from an open_modes argument
Handles ==
    ({GetFile(M, href) : href \in DOMAIN href_to_file} \ {NoFile}) \cup
    {[kind |-> "opener", path |-> <<"e1">>,
      open_modes |-> InitOpenModes(<<None>>, arg, has_mode, use_io_open), hid |-> 0] :
        arg \in {<< >>, <<None>>, <<"r">>, <<"w">>, <<"r", "w">>, <<"a", "+">>,
                 <<"x", "b">>, <<"w", "+">>},
        has_mode \in BOOLEAN, use_io_open \in BOOLEAN}

\* some mode strings outside OPEN_MODES
IllegalModes ==
    {<<"r", "w">>, <<"b">>, <<"+">>, <<"r", "r">>, <<"r", "b", "t">>, <<"w", "+", "+">>,
     <<"a", "x", "b">>, <<"t">>}

\* C23: File.open(mode) rejects a legal mode as unsupported exactly when one of
\* the characters w, a, x, + of the mode is missing from the capability mask of
\* the handle; a mode that only reads is accepted by every handle; and
\* check_open_mode(mode) is true exactly for the modes open accepts.
OpenRejectsMissingCapabilities ==
    LET legal == OPEN_MODES
        files == Handles
    IN  /\ \A mode \in legal, file \in files :
              /\ (FileOpenCheck(file, mode) = "ValueError")
                    <=> ((Range(mode) \cap {"w", "a", "x", "+"}) \ file.open_modes # {})
              /\ (Range(mode) \cap {"w", "a", "x", "+"} = {})
                    => FileOpenCheck(file, mode) = ""
        /\ \A mode \in legal \cup IllegalModes, file \in files :
              check_open_mode(file, mode) <=> (FileOpenCheck(file, mode) = "")

\* an open has gone through, and the Manifest holds a handle that can be
\* written and a handle that cannot
OpenRejectsMissingCapabilities_witness ==
    /\ ret = Ret("open", "")
    /\ \E f, g \in Handles :
          /\ f.kind = "zip" /\ ~check_open_mode(f, <<"w", "b">>)
          /\ FileOpenCheck(f, <<"w", "b">>) = "ValueError"
          /\ g.kind = "temp" /\ check_open_mode(g, <<"w", "b">>)

\* C24: Manifest.open and File.open, called with a mode string outside the
\* legal permutations of {r,w,x,a} x {b,t} x {+}, raise ValueError before any
\* lookup, materialization or registration: the Manifest and the scratch
\* store are as they were.
IllegalModeChangesNothing ==
    ~batch.active =>
        \A mode \in IllegalModes, data \in {<< >>, D1} :
            /\ \A h \in PathInputs \cup {<<"c">>} :
                  /\ open(M, h, mode, data, generate_id, None).err = "ValueError"
                  /\ open(M, h, mode, data, generate_id, None).m = M
            /\ \A href \in DOMAIN href_to_file :
                  GetFile(M, href) # NoFile =>
                     /\ FileOpen(M, GetFile(M, href), mode, data).err = "ValueError"
                     /\ FileOpen(M, GetFile(M, href), mode, data).m = M

\* open was called with an illegal mode on a resource kept in the archive,
\* which a legal writing mode would have moved to the scratch store
IllegalModeChangesNothing_witness ==
    /\ ret = Ret("open", "ValueError")
    /\ A \in DOMAIN href_to_file /\ href_to_file[A].kind = "zip"
    /\ workfs = EmptyFn
    /\ nuuid = 0
    /\ open(M, A, <<"a", "b">>, D1, generate_id, None).m # M

----------------------------------------------------------------------------
(* Paths that are not registered *)

\* the paths of the inputs that are not empty and not registered
Unregistered == {h \in DestInputs : Strip(h) # << >> /\ Strip(h) \notin DOMAIN href_to_id}

ReadModes == {<<"r">>, <<"r", "b">>, <<"r", "t">>, <<"r", "+">>}

NotFoundUnchanged(r) == r.err = "FileNotFoundError" /\ r.m = M

\* C25: stat(p), remove(p), open(p) in a read mode, rename(p, q) and
\* replace(p, q), called with a path p that is not registered, each raise
\* FileNotFoundError and leave the Manifest exactly as it was.
UnregisteredIsNotFound ==
    ~batch.active =>
        \A p \in Unregistered :
            /\ NotFoundUnchanged(stat(M, p))
            /\ NotFoundUnchanged(remove(M, p))
            /\ \A mode \in ReadModes :
                  NotFoundUnchanged(open(M, p, mode, << >>, generate_id, None))
            /\ \A q \in DestInputs :
                  Strip(q) # << >> =>
                     /\ NotFoundUnchanged(rename(M, p, q, None))
                     /\ NotFoundUnchanged(replace(M, p, q))

\* the same, rename being given a destination that is free and is not p
UnregisteredIsNotFoundFreeDest ==
    ~batch.active =>
        \A p \in Unregistered :
            /\ NotFoundUnchanged(stat(M, p))
            /\ NotFoundUnchanged(remove(M, p))
            /\ \A mode \in ReadModes :
                  NotFoundUnchanged(open(M, p, mode, << >>, generate_id, None))
            /\ \A q \in DestInputs :
                  /\ rename(M, p, q, None).m = M
                  /\ (Strip(q) # << >> /\ Strip(q) # Strip(p)
                        /\ Strip(q) \notin DOMAIN href_to_id)
                        => NotFoundUnchanged(rename(M, p, q, None))
                  /\ Strip(q) # << >> => NotFoundUnchanged(replace(M, p, q))

----------------------------------------------------------------------------
(* Cleaning the scratch store up *)

\* C26: TemporaryFS.cleanup removes every path the filesystem created and has
\* not since removed, together with its scratch namespace; it never raises,
\* and calling it again (or after individual removes) changes nothing and
\* does not raise either.
CleanupRemovesAll ==
    LET c == cleanup(tfs)
    IN  /\ c.err = ""
        /\ c.t.files \cap tfs.made = {}
        /\ tfs.root # "" => ~c.t.dir
        /\ cleanup(c.t) = c

\* the same, the namespace being looked at only where the provider can remove
\* a directory
CleanupRemovesAllItCan ==
    LET c == cleanup(tfs)
    IN  /\ c.err = ""
        /\ c.t.files \cap tfs.made = {}
        /\ (tfs.root # "" /\ (tfs.kind # "flat" \/ tfs.rmdir)) => ~c.t.dir
        /\ cleanup(c.t) = c

----------------------------------------------------------------------------
(* Looking resources up by pattern *)

\* the ids of the registered resources whose path satisfies P
ResourcesAt(P(_)) ==
    {href_to_id[h] : h \in {p \in DOMAIN href_to_id : HasItem(M, href_to_id[p]) /\ P(p)}}

HasSuffix(h, suffix) ==
    Len(h) >= Len(suffix) /\ SubSeq(h, Len(h) - Len(suffix) + 1, Len(h)) = suffix

\* C27: glob("*.xhtml", dirname="Text") yields exactly the registered
\* resources that are direct children of Text/ with the .xhtml suffix (none in
\* deeper directories), and glob("**/*.css") yields every registered .css
\* resource at every directory depth.
GlobMatchesByDepth ==
    /\ glob(M, <<"*", ".", "x">>, <<"T">>, None, FALSE).out =
          ResourcesAt(LAMBDA h : dirname(h) = <<"T">> /\ HasSuffix(h, <<".", "x">>))
    /\ glob(M, <<"*", "*", "/", "*", ".", "c">>, << >>, None, FALSE).out =
          ResourcesAt(LAMBDA h : HasSuffix(h, <<".", "c">>))

\* the same, the style sheets being those inside some directory
GlobMatchesBelowTop ==
    /\ glob(M, <<"*", ".", "x">>, <<"T">>, None, FALSE).out =
          ResourcesAt(LAMBDA h : dirname(h) = <<"T">> /\ HasSuffix(h, <<".", "x">>))
    /\ glob(M, <<"*", "*", "/", "*", ".", "c">>, << >>, None, FALSE).out =
          ResourcesAt(LAMBDA h : dirname(h) # << >> /\ HasSuffix(h, <<".", "c">>))

----------------------------------------------------------------------------
(* The storage a resource is bound to *)

\* Unbound, Bound-ReadOnly, Bound-ReadWrite, Removed, as 0 to 3
StorageState(m, id) ==
    IF ~HasItem(m, id) THEN 3
    ELSE LET file == GetFile(m, Unquote(m.attrib[ElOf(m.items, id)].href))
         IN  IF file = NoFile THEN 0
             ELSE IF check_open_mode(file, <<"w">>) THEN 2 ELSE 1

\* the Manifest after each call of open, write, rename and replace
AfterFileCalls ==
    {open(M, h, mode, data, generate_id, gen).m :
        h \in PathInputs, mode \in ModeInputs, data \in Data, gen \in Generated}
    \cup {write(M, h, data, generate_id, gen).m :
        h \in PathInputs, data \in Data, gen \in Generated}
    \cup {rename(M, h, dest_h, None).m : h \in PathInputs, dest_h \in DestInputs}
    \cup {replace(M, h, dest_h).m : h \in PathInputs, dest_h \in DestInputs}

\* the Manifest after each manifest[id] = value and each set(id, value)
AfterAssignments(values) ==
    {setitem(M, id, value, generate_id, gen).m :
        id \in ItemIds, value \in values, gen \in Generated}
    \cup {set(M, id, value, generate_id, gen).m :
        id \in ItemIds \cup IdInputs, value \in values, gen \in Generated}

\* the paths registered for the resource
PathsOf(id) == {h \in DOMAIN href_to_id : href_to_id[h] = id}

\* C28: per resource, the storage state only moves forward along Unbound ->
\* Bound-ReadOnly -> Bound-ReadWrite -> Removed: no call of open, write,
\* rename, replace, manifest[id] = value or set takes a live resource from
\* Bound-ReadWrite back to Bound-ReadOnly, and remove leads to Removed from
\* every state.
StorageOnlyMovesForward ==
    ~batch.active =>
        \A id \in ItemIds :
            /\ \A m \in AfterFileCalls \cup AfterAssignments(Assigned) :
                  StorageState(m, id) >= StorageState(M, id)
            /\ \A h \in PathsOf(id) : StorageState(remove(M, h).m, id) = 3

\* What holds while the indices agree: the same of open, write, rename,
\* replace and of the assignment of a path, of bytes or of attributes, while
\* the assignment of an opener binds the resource to that opener, read-only,
\* whatever its state was.
StorageMovesForwardUnlessRebound ==
    (~batch.active /\ IndicesAgree) =>
        \A id \in ItemIds :
            /\ \A m \in AfterFileCalls
                         \cup AfterAssignments({v \in Assigned : v.type # "opener"}) :
                  StorageState(m, id) >= StorageState(M, id)
            /\ \A gen \in Generated, v \in {w \in Assigned : w.type = "opener"} :
                  /\ StorageState(setitem(M, id, v, generate_id, gen).m, id) = 1
                  /\ StorageState(set(M, id, v, generate_id, gen).m, id) = 1
            /\ \A h \in PathsOf(id) : StorageState(remove(M, h).m, id) = 3

----------------------------------------------------------------------------
(* One handle per path *)

\* the paths bound to a handle
Bound == {h \in DOMAIN href_to_file : href_to_file[h] # NoFile}

\* C31: each registered path has at most one handle, no handle object and no
\* scratch-file name is bound to two different paths, and a registered path
\* that has no handle yet gets exactly one on its first open: a scratch handle
\* of its own, which the next open finds again.
HandlesAreNotShared ==
    /\ \A p \in Bound, q \in Bound :
          p # q =>
             /\ href_to_file[p] # href_to_file[q]
             /\ (href_to_file[p].kind = "temp" /\ href_to_file[q].kind = "temp")
                   => href_to_file[p].path # href_to_file[q].path
    /\ ~batch.active =>
          \A h \in DOMAIN href_to_id \ Bound :
             \A mode \in {<<"r", "b">>, <<"w", "b">>, <<"a", "b">>, <<"r", "+", "b">>} :
                LET r == open(M, h, mode, << >>, generate_id, None).m
                IN  /\ h \in DOMAIN r.href_to_file
                    /\ r.href_to_file[h].kind = "temp"
                    /\ \A q \in DOMAIN r.href_to_file \ {h} :
                          r.href_to_file[q] # r.href_to_file[h]
                    /\ open(r, h, mode, << >>, generate_id, None).m.href_to_file[h]
                          = r.href_to_file[h]

\* a registered path that had no handle (a rename had registered it and then
\* failed before it moved the handle) was opened, and got a scratch handle
HandlesAreNotShared_witness ==
    /\ ret = Ret("open", "")
    /\ <<"U+DCFF">> \in DOMAIN href_to_id \cap Bound
    /\ href_to_file[<<"U+DCFF">>] = TempFile(UUIDS[1])
    /\ A \in Bound \ DOMAIN href_to_id

----------------------------------------------------------------------------
(* Copy on write *)

\* the paths whose handle cannot be opened in the mode
ToMaterialize(mode) ==
    {h \in DOMAIN href_to_id \cap Bound : ~check_open_mode(href_to_file[h], mode)}

\* what opening the handle for reading and reading it to the end raises
SourceErr(file) ==
    IF FileOpen(M, file, <<"r", "b">>, << >>).err # ""
    THEN FileOpen(M, file, <<"r", "b">>, << >>).err
    ELSE ReadErr(file)

\* the entry of the path is the scratch handle the call made, and the scratch
\* file holds the bytes the handle before it had
SwappedAfterCopy(m, h) ==
    /\ m.href_to_file[h] = TempFile(uuid4(M))
    /\ SourceErr(href_to_file[h]) = ""
    /\ m.workfs[uuid4(M)] = Bytes(M, href_to_file[h])

\* C32: in the materialization of Manifest.open the path -> handle entry is
\* replaced by the new scratch handle only after the copy of the current
\* bytes has completed; if opening or copying the source raises, the call
\* fails and the path still maps to its original handle.
SwapsOnlyAfterTheCopy ==
    \A mode \in {<<"a", "b">>, <<"r", "+", "b">>} :
        \A h \in ToMaterialize(mode) :
            LET r == open(M, h, mode, << >>, generate_id, None)
            IN  /\ r.m.href_to_file[h] # href_to_file[h] => SwappedAfterCopy(r.m, h)
                /\ SourceErr(href_to_file[h]) # "" =>
                      /\ r.err # ""
                      /\ r.m.href_to_file[h] = href_to_file[h]

\* C32, as it holds: the entry is replaced only after the copy has completed,
\* or, in a mode without r, when the source does not exist and there is
\* nothing to copy; if opening or copying the source raises anything else,
\* or the source does not exist and the mode has r, the call fails and the
\* path still maps to its original handle.
SwapsAfterTheCopyOrForNoSource ==
    \A mode \in {<<"a", "b">>, <<"r", "+", "b">>} :
        \A h \in ToMaterialize(mode) :
            LET r == open(M, h, mode, << >>, generate_id, None)
                absent == SourceErr(href_to_file[h]) = "FileNotFoundError"
                                /\ "r" \notin Range(mode)
            IN  /\ r.m.href_to_file[h] # href_to_file[h] =>
                      \/ SwappedAfterCopy(r.m, h)
                      \/ absent /\ r.m.href_to_file[h] = TempFile(uuid4(M)) /\ r.err = ""
                /\ (SourceErr(href_to_file[h]) # "" /\ ~absent) =>
                      /\ r.err = SourceErr(href_to_file[h])
                      /\ r.m.href_to_file[h] = href_to_file[h]
                /\ r.err # "" => r.m.href_to_file[h] = href_to_file[h]

\* a materialization failed on a source that cannot be read, and the path
\* kept its handle; another, of a source that is not there, succeeded
SwapsAfterTheCopyOrForNoSource_witness ==
    /\ ret = Ret("open", "OSError")
    /\ <<"c">> \in Bound /\ href_to_file[<<"c">>].kind = "fs"
    /\ href_to_file[<<"c">>].path = <<"e4">>
    /\ workfs # EmptyFn


\* the paths bound to a handle that can be read to the end
Readable == {h \in DOMAIN href_to_id \cap Bound : SourceErr(href_to_file[h]) = ""}

\* the call gave the path the scratch handle it made, and the resource reads
\* back as data
YieldsScratchWith(r, h, data) ==
    /\ r.err = ""
    /\ r.m.href_to_file[h] = TempFile(uuid4(M))
    /\ read(r.m, h).err = ""
    /\ read(r.m, h).data = data

\* C33: a write-intent open that does not truncate (append or read-update
\* modes) on a read-only-backed resource yields a TempFile handle whose
\* initial content equals the resource's bytes just before the call; with a
\* truncating write mode the new handle starts empty.
ScratchStartsWithTheBytes ==
    \A h \in Readable :
        LET file == href_to_file[h]
        IN  /\ \A mode \in {<<"a", "b">>, <<"r", "+", "b">>, <<"a", "+", "b">>} :
                  ~check_open_mode(file, mode) =>
                     /\ YieldsScratchWith(open(M, h, mode, << >>, generate_id, None),
                                          h, Bytes(M, file))
                     /\ "a" \in Range(mode) =>
                           YieldsScratchWith(open(M, h, mode, D1, generate_id, None),
                                             h, Bytes(M, file) \o D1)
            /\ \A mode \in {<<"w", "b">>, <<"w", "+", "b">>} :
                  ~check_open_mode(file, mode) =>
                     /\ YieldsScratchWith(open(M, h, mode, << >>, generate_id, None),
                                          h, << >>)
                     /\ YieldsScratchWith(open(M, h, mode, D1, generate_id, None),
                                          h, D1)

\* a resource of the archive was opened for appending: its scratch file has
\* the bytes of the archive's entry, then the bytes appended
ScratchStartsWithTheBytes_witness ==
    /\ ret = Ret("open", "")
    /\ <<"O", "/", "a">> \in DOMAIN zfile /\ A \in Bound
    /\ href_to_file[A].kind = "temp"
    /\ zfile[<<"O", "/", "a">>] # << >>
    /\ workfs[href_to_file[A].path[1]] = zfile[<<"O", "/", "a">>] \o D1

----------------------------------------------------------------------------
(* The streams the calls open for themselves *)

\* C34: every stream that a Manifest or Packer operation opens internally
\* (the scratch-file destination in add from a stream source, the source and
\* destination of a materialization copy, the streams of read, write and
\* pack) is closed by the time the operation returns or raises.
InternalStreamsAreClosed == streams = {}

----------------------------------------------------------------------------
(* The form of the registered paths *)

\* C35: every path registered in the Manifest, whether loaded from the
\* descriptor at construction or produced by add, open, rename, batch_rename
\* or replace, is non-empty and has no leading or trailing slash, so that
\* looking a resource up by its own registered path always finds it.
RegisteredPathsAreStripped ==
    \A h \in DOMAIN href_to_id :
        /\ h # << >>
        /\ Head(h) # "/" /\ Last(h) # "/"
        /\ call(M, h) = [err |-> "", id |-> href_to_id[h]]

\* as far as it holds: the paths the calls register
CallsRegisterStrippedPaths ==
    \A h \in DOMAIN href_to_id :
        (\A i \in DOMAIN epub.original : Unquote(epub.original[i].href) # h) =>
            /\ h # << >>
            /\ Head(h) # "/" /\ Last(h) # "/"
            /\ call(M, h) = [err |-> "", id |-> href_to_id[h]]

----------------------------------------------------------------------------
(* Replacing a resource by another *)

\* the item elements of the tree whose href is the path
ElementsAt(m, p) == {e \in Range(m.root) : Unquote(m.attrib[e].href) = p}

\* r is the outcome of replace(src, dst) with both registered, as stated
ReplacedBy(r, src, dst) ==
    /\ r.err = ""
    /\ dst \in DOMAIN r.m.href_to_id
    /\ r.m.href_to_id[dst] = href_to_id[src]
    /\ GetFile(r.m, dst) = GetFile(M, src)
    /\ Cardinality(ElementsAt(r.m, dst)) = 1
    /\ \A i \in DOMAIN r.m.items :
          ItemHrefIn(r.m, r.m.items[i].id) = dst => r.m.items[i].id = href_to_id[src]
    /\ src \notin DOMAIN r.m.href_to_id \cup DOMAIN r.m.href_to_file
    /\ ElementsAt(r.m, src) = {}
    /\ href_to_id[dst] \notin {r.m.items[i].id : i \in DOMAIN r.m.items}
    /\ href_to_id[dst] \notin Range(r.m.href_to_id)
    /\ ElementsAt(M, dst) \cap Range(r.m.root) = {}
    /\ GetFile(M, dst).kind = "temp" =>
          StoreKey(GetFile(M, dst)) \notin DOMAIN r.m.workfs

\* C36: replace(src, dst) with both paths registered and src different from
\* dst leaves exactly one resource at dst, carrying src's id and handle;
\* src's old path is unregistered; dst's former resource is gone from all
\* three indices and the tree and its TempFile storage is released; and if
\* src is not registered the call raises before dst's resource is touched.
ReplaceTakesTheDestination ==
    ~batch.active =>
        \A h \in PathInputs, d \in DestInputs :
            LET src == Strip(h)
                dst == Strip(d)
                r   == replace(M, h, d)
            IN  /\ ({src, dst} \subseteq DOMAIN href_to_id /\ src # dst) =>
                      ReplacedBy(r, src, dst)
                /\ (src # << >> /\ src \notin DOMAIN href_to_id) =>
                      r.err = "FileNotFoundError" /\ r.m = M

\* C36, in the states whose indices agree
ReplaceTakesTheDestinationWhenIndicesAgree ==
    (~batch.active /\ IndicesAgree) =>
        \A h \in PathInputs, d \in DestInputs :
            LET src == Strip(h)
                dst == Strip(d)
                r   == replace(M, h, d)
            IN  /\ ({src, dst} \subseteq DOMAIN href_to_id /\ src # dst) =>
                      ReplacedBy(r, src, dst)
                /\ (src # << >> /\ src \notin DOMAIN href_to_id) =>
                      r.err = "FileNotFoundError" /\ r.m = M

----------------------------------------------------------------------------
(* The references of a resource that moves *)

\* C37: after rename(old, new, repair=True) where the renamed resource moves
\* to a different directory and itself contains relative references, every
\* relative reference inside the renamed resource still resolves (against
\* its new directory) to the same registered resource it resolved to before
\* the rename.
MovedResourceKeepsItsReferences ==
    \A h \in RemapPaths, dest_h \in RemapDests :
        LET old == Strip(h)
            new == Strip(dest_h)
            r   == rename_repair(M, h, dest_h, None, TRUE)
        IN  (r.err = "" /\ old # new /\ old \in DOMAIN href_to_id
                /\ dirname(old) # dirname(new)) =>
                LET id     == href_to_id[old]
                    mt     == MediaType(M, id)
                    before == read_text(M, id)
                    after  == read_text(r.m, id)
                IN  (before.err = "" /\ PatternsOf(mt) # {}) =>
                        /\ after.err = ""
                        /\ Len(after.text) = Len(before.text)
                        /\ \A i \in DOMAIN before.text :
                              (/\ RelativeRef(before.text[i], mt)
                               /\ ResolvesTo(before.text[i], dirname(old))
                                     \in DOMAIN href_to_id) =>
                                 LET p == ResolvesTo(before.text[i], dirname(old))
                                     q == ResolvesTo(after.text[i], dirname(new))
                                 IN  /\ q \in DOMAIN r.m.href_to_id
                                     /\ r.m.href_to_id[q] = href_to_id[p]

\* as far as it holds: the references of the renamed resource are as they
\* were written, but for those that resolve against its new directory to
\* its old path
MovedResourceKeepsItsText ==
    \A h \in RemapPaths, dest_h \in RemapDests :
        LET old == Strip(h)
            new == Strip(dest_h)
            r   == rename_repair(M, h, dest_h, None, TRUE)
        IN  (r.err = "" /\ old # new /\ old \in DOMAIN href_to_id) =>
                LET id     == href_to_id[old]
                    mt     == MediaType(M, id)
                    before == read_text(M, id)
                    after  == read_text(r.m, id)
                IN  (before.err = "" /\ PatternsOf(mt) # {}) =>
                        /\ after.err = ""
                        /\ Len(after.text) = Len(before.text)
                        /\ \A i \in DOMAIN before.text :
                              ~(RelativeRef(before.text[i], mt)
                                  /\ ResolvesTo(before.text[i], dirname(new)) = old)
                                 => after.text[i] = before.text[i]

----------------------------------------------------------------------------
(* Opening a path that is, or is not, registered *)

\* the paths given to open: registered ones, free ones, one written with
\* slashes and one that cannot be quoted
OpenedPaths == {A, B, <<"c">>, <<"d">>, <<"/", "d", "/">>, <<"U+DCFF">>}

\* the modes given to open: each of r, w, a, x alone, binary, as text, for
\* update, and with its characters in another order
OpenedModes ==
    {<<c>> : c \in {"r", "w", "a", "x"}}
        \cup {<<c, "b">> : c \in {"r", "w", "a", "x"}}
        \cup {<<c, "+", "b">> : c \in {"r", "w", "a", "x"}}
        \cup {<<"t", "a">>, <<"+", "x">>, <<"b", "+", "r">>, <<"w", "t", "+">>}

\* r.m is M with one more resource: a new item element with a new id at the
\* path, bound to a scratch handle of its own that allows the mode
RegistersNew(r, href, mode) ==
    /\ DOMAIN r.m.href_to_id = DOMAIN href_to_id \cup {href}
    /\ \A p \in DOMAIN href_to_id : r.m.href_to_id[p] = href_to_id[p]
    /\ r.m.href_to_id[href] \notin ItemIds
    /\ {r.m.items[i].id : i \in DOMAIN r.m.items} = ItemIds \cup {r.m.href_to_id[href]}
    /\ Len(r.m.root) = Len(root) + 1
    /\ Last(r.m.root) \notin Range(root)
    /\ r.m.attrib[Last(r.m.root)].id = r.m.href_to_id[href]
    /\ Unquote(r.m.attrib[Last(r.m.root)].href) = href
    /\ r.m.href_to_file[href] = TempFile(uuid4(M))
    /\ \A p \in DOMAIN href_to_file : r.m.href_to_file[p] = href_to_file[p]
    /\ check_open_mode(r.m.href_to_file[href], mode)
    /\ uuid4(M) \notin DOMAIN workfs
    /\ uuid4(M) \in DOMAIN r.m.workfs

\* C38: Manifest.open follows create/exists semantics: a write, append or
\* exclusive mode on an unregistered path registers a new resource there
\* (fresh id, item element, writable TempFile handle) before opening it,
\* when add accepts the path, and raises what add raises when it does not;
\* an exclusive mode on a registered path raises FileExistsError and changes
\* nothing; a read mode never registers anything.
OpenCreatesOrRefuses ==
    LET modes == OpenedModes
    IN  \A h \in OpenedPaths, mode \in modes :
            LET href == Strip(h)
                r    == open(M, h, mode, << >>, generate_id, None)
                a    == add(M, href, NoSource, None, generate_id, None)
            IN  /\ (href \notin DOMAIN href_to_id /\ "r" \notin Range(mode)) =>
                      IF a.err = "" THEN r.err = "" /\ RegistersNew(r, href, mode)
                      ELSE r.err = a.err /\ r.m = M
                /\ (href \in DOMAIN href_to_id /\ "x" \in Range(mode)) =>
                      r.err = "FileExistsError" /\ r.m = M
                /\ "r" \in Range(mode) =>
                      /\ r.m.href_to_id = href_to_id
                      /\ r.m.items = items /\ r.m.root = root /\ r.m.attrib = attrib
                      /\ href \notin DOMAIN href_to_id =>
                            r.err = "FileNotFoundError" /\ r.m = M

\* the session's first call opened the free path c for exclusive creation
OpenCreatesOrRefuses_witness ==
    /\ ret = Ret("open", "")
    /\ ncalls = 1
    /\ <<"c">> \in DOMAIN href_to_id
    /\ href_to_file[<<"c">>] = TempFile(UUIDS[1])
    /\ "u1" \in DOMAIN workfs

----------------------------------------------------------------------------
(* The files of the scratch store *)

\* the registered paths whose current handle is the scratch file f
OwnersOf(f) ==
    {p \in DOMAIN href_to_id \cap Bound : href_to_file[p] = TempFile(f)}

\* C39: in every reachable state before teardown, every file present in the
\* Manifest's scratch store is the storage of exactly one live resource's
\* current handle: no operation (clear, item assignment that rebinds a
\* handle, set, a failed materialization) leaves a scratch file that no
\* registered path refers to.
ScratchFilesAreOwned == \A f \in DOMAIN workfs : Cardinality(OwnersOf(f)) = 1

\* as far as it holds: no scratch file is the storage of two resources
ScratchFilesHaveOneOwnerAtMost == \A f \in DOMAIN workfs : Cardinality(OwnersOf(f)) <= 1

----------------------------------------------------------------------------
(* touch *)

\* the bytes of the resource at the path p in the state m, None when p is
\* not registered, has no handle or its handle has no file behind it
ContentOf(m, p) ==
    IF p \in DOMAIN m.href_to_id /\ HasBytes(m, GetFile(m, p))
    THEN Bytes(m, GetFile(m, p)) ELSE None

\* touch(h) gave r: every resource has the content it had, but for the one
\* at the path, which is empty if it had none
TouchedOnly(r, h) ==
    \A p \in DOMAIN href_to_id \cup DOMAIN r.m.href_to_id :
        \/ ContentOf(r.m, p) = ContentOf(M, p)
        \/ /\ p = Strip(h)
           /\ ContentOf(M, p) = None
           /\ ContentOf(r.m, p) = << >>

\* C40: touch(p) on a registered resource that already has content never
\* changes that content, even when the probing read-open fails; touch only
\* ever creates an empty resource where none with content existed.
TouchKeepsContent ==
    \A h \in OpenedPaths : TouchedOnly(touch(M, h, generate_id, None), h)

\* as far as it holds: touch of a path whose resource can be opened for
\* reading, or has no content
TouchKeepsContentThatOpens ==
    \A h \in OpenedPaths :
        (\/ ContentOf(M, Strip(h)) = None
         \/ open(M, h, <<"r", "b">>, << >>, generate_id, None).err = "")
            => TouchedOnly(touch(M, h, generate_id, None), h)

============================================================================
